---- MODULE Spec2Model ----
(***************************************************************************)
(* Maneuver scheduling: problem data, schedule simulator, neighbourhoods,  *)
(* VND/RVND local search and the ILS driver.                               *)
(*                                                                         *)
(* Times are doubles in the program.  Here a time is an integer number of  *)
(* half thresholds (one unit = THRESHOLD / 2 = 5e-6), so that two distinct *)
(* times can still be equal under the epsilon comparator, and +infinity is *)
(* the value Inf, with the arithmetic of IEEE doubles on it.               *)
(***************************************************************************)
EXTENDS Integers, Sequences, FiniteSets, TLC

\* ------------------------------------------------------------ bounds
NumOps == 3
NumTeams == 2
MaxEdges == 2
MaxIterations == 1
MaxPasses == 2
MaxSeed == 1

\* the times a draw that is rejected is made again
MaxRedraws == 2

\* ------------------------------------------------------------ constants
THRESHOLD == 2
Inf == 1000000

VARIABLES
    problem,      \* the Problem instance (immutable after construction)
    pc,           \* position of the running procedure
    params,       \* ILS::solve: the algorithm parameters read from opt_input
    ils,          \* ILS::solve: its local variables
    ls,           \* local_search::vnd / rvnd: the local variables of the running call
    generator,    \* ILS::solve: the std::mt19937 it seeds and hands to rvnd and perturb
    history,      \* history: the evaluations of the local optima the run produced
    result,       \* ILS::solve: the returned pair
    runs,         \* history: what the earlier runs on the same input returned
    sched,        \* harness: schedule handed to the pure functions
    out           \* harness: record of the last pure-function application

vars == <<problem, pc, params, ils, ls, generator, history, result, runs, sched, out>>

\* ------------------------------------------------------------ helpers
Ops == 1 .. NumOps
Lanes == 0 .. NumTeams
Teams == 1 .. NumTeams

Max2(a, b) == IF a < b THEN b ELSE a

\* double addition: +infinity absorbs
Add(a, b) == IF a = Inf \/ b = Inf THEN Inf ELSE a + b

Abs(a) == IF a < 0 THEN -a ELSE a

\* vector::erase(begin() + idx), idx counted from 0
EraseAt(seq, idx) == SubSeq(seq, 1, idx) \o SubSeq(seq, idx + 2, Len(seq))

\* vector::insert(begin() + idx, x), idx counted from 0
InsertAt(seq, idx, x) == SubSeq(seq, 1, idx) \o <<x>> \o SubSeq(seq, idx + 1, Len(seq))

\* the largest f[x] over x in S, 0 for the empty set (every time is >= 0)
RECURSIVE FoldMax(_, _)
FoldMax(f, S) ==
    IF S = {} THEN 0
    ELSE LET x == CHOOSE y \in S : TRUE IN Max2(f[x], FoldMax(f, S \ {x}))

\* ------------------------------------------------------------ comparator
\* common::compare(double, double)
Compare(first, second) ==
    IF first # Inf /\ second # Inf /\ Abs(first - second) < THRESHOLD THEN 0
    ELSE IF first < second THEN -1 ELSE 1

\* common::compare(tuple, tuple) through tuple_comparator
TupleCompare(t1, t2) ==
    LET r1 == Compare(t1[1], t2[1]) IN
    IF r1 # 0 THEN r1
    ELSE LET r2 == Compare(t1[2], t2[2]) IN IF r2 # 0 THEN r2 ELSE 0

\* variant of Less: the operands are exchanged
LessExchanged(t1, t2) == TupleCompare(t2, t1) = -1

\* common::less(tuple, tuple)
Less(t1, t2) == TupleCompare(t1, t2) = -1

\* ------------------------------------------------------------ problem
\* Problem::Problem: the fields read from the file and the successor sets
LoadProblem(tech, proc, travel, preds) ==
    [n |-> NumOps, m |-> NumTeams,
     technology |-> tech,
     p |-> [i \in 0 .. NumOps |-> IF i = 0 THEN 0 ELSE proc[i]],
     s |-> [i \in 0 .. NumOps |-> [j \in 0 .. NumOps |-> [l \in Lanes |->
              IF l = 0 THEN 0 ELSE travel[i][j][l]]]],
     predecessors |-> [j \in 0 .. NumOps |-> IF j = 0 THEN {} ELSE preds[j]],
     successors |-> [i \in 0 .. NumOps |-> {j \in Ops : i \in preds[j]}]]

\* variant of Expand: the predecessors of a predecessor are not followed
ExpandDirect(P, pending, processed, found) == found \cup pending

\* Problem::Problem, "Compute the precedence graph of j": the while loop, which takes
\* the least element of the pending set, marks it and adds its unprocessed predecessors
RECURSIVE Expand(_, _, _, _)
Expand(P, pending, processed, found) ==
    IF pending = {} THEN found
    ELSE LET i == CHOOSE x \in pending : \A y \in pending : x <= y IN
         Expand(P, (pending \ {i}) \cup {k \in P.predecessors[i] : k \notin processed \cup {i}},
                processed \cup {i}, found \cup {i})

\* Problem::Problem, "Compute the full precedence matrix"
precedence(P) ==
    [i \in 0 .. P.n |-> [j \in 0 .. P.n |->
        j >= 1 /\ i \in Expand(P, P.predecessors[j], {}, {})]]

\* std::vector<T>(hi + 1): the vector with f[k] at each index k of 0 .. hi
RECURSIVE Vector(_, _)
Vector(f, hi) == IF hi = 0 THEN 0 :> f[0] ELSE Vector(f, hi - 1) @@ (hi :> f[hi])

\* create_empty_schedule: m + 1 empty lanes, indexed 0 .. m
RECURSIVE create_empty_schedule(_)
create_empty_schedule(m) ==
    IF m = 0 THEN 0 :> <<>> ELSE create_empty_schedule(m - 1) @@ (m :> <<>>)

\* ------------------------------------------------------------ simulator
\* variant of Arrival: lane 0 handled as a team that travels from operation to operation
ArrivalTravels(P, t, i, j, l) == Add(Add(t[i], P.p[i]), P.s[i][j][l])

\* Problem::start_time, "Compute the start time": a team travels, lane 0 does not
Arrival(P, t, i, j, l) == IF l # 0 THEN Add(Add(t[i], P.p[i]), P.s[i][j][l]) ELSE 0

\* variant of Wait: the operation starts on arrival, its predecessors are not waited for
WaitNone(P, t, t0, j) == t0

\* Problem::start_time, "Wait predecessor maneuvers": no start before every predecessor ends
Wait(P, t, t0, j) ==
    Max2(t0, FoldMax([k \in 0 .. P.n |-> Add(t[k], P.p[k])], P.predecessors[j]))

\* variant of ScanLane: the team is taken to leave from the depot for every operation
ScanLaneFromDepot(P, schedule, st, l) ==
    IF st.index[l] < Len(schedule[l])
    THEN LET j == schedule[l][st.index[l] + 1] IN
         IF st.pendings[j] = 0
         THEN LET i == 0
                  t0 == Arrival(P, st.t, i, j, l)
                  tj == Wait(P, st.t, t0, j)
              IN [t |-> [st.t EXCEPT ![j] = tj],
                  index |-> [st.index EXCEPT ![l] = @ + 1],
                  location |-> [st.location EXCEPT ![l] = j],
                  pendings |-> [k \in 0 .. P.n |->
                                  IF k \in P.successors[j] THEN st.pendings[k] - 1
                                  ELSE st.pendings[k]],
                  count |-> st.count + 1,
                  feasibility |-> TRUE]
         ELSE st
    ELSE st

\* Problem::start_time, the body of the for loop over the lanes
ScanLane(P, schedule, st, l) ==
    IF st.index[l] < Len(schedule[l])
    THEN LET j == schedule[l][st.index[l] + 1] IN
         IF st.pendings[j] = 0
         THEN LET i == st.location[l]
                  t0 == Arrival(P, st.t, i, j, l)
                  tj == Wait(P, st.t, t0, j)
              IN [t |-> [st.t EXCEPT ![j] = tj],
                  index |-> [st.index EXCEPT ![l] = @ + 1],
                  location |-> [st.location EXCEPT ![l] = j],
                  pendings |-> [k \in 0 .. P.n |->
                                  IF k \in P.successors[j] THEN st.pendings[k] - 1
                                  ELSE st.pendings[k]],
                  count |-> st.count + 1,
                  feasibility |-> TRUE]
         ELSE st
    ELSE st

RECURSIVE ScanLanes(_, _, _, _)
ScanLanes(P, schedule, st, l) ==
    IF l > P.m THEN st ELSE ScanLanes(P, schedule, ScanLane(P, schedule, st, l), l + 1)

\* variant of Rounds: the lanes are gone through once
RoundsOnce(P, schedule, st) == ScanLanes(P, schedule, [st EXCEPT !.feasibility = FALSE], 0)

RECURSIVE Rounds(_, _, _)
Rounds(P, schedule, st) ==
    IF st.count < P.n /\ st.feasibility
    THEN Rounds(P, schedule, ScanLanes(P, schedule, [st EXCEPT !.feasibility = FALSE], 0))
    ELSE st

InSchedule(P, schedule) == UNION {{schedule[l][k] : k \in 1 .. Len(schedule[l])} : l \in 0 .. P.m}

\* Problem::start_time, "Start time of each task" and "Auxiliary structures"
SimulatorStart(P, schedule) ==
    [t |-> Vector([i \in 0 .. P.n |-> IF i = 0 THEN 0 ELSE Inf], P.n),
     index |-> Vector([l \in 0 .. P.m |-> 0], P.m),
     location |-> Vector([l \in 0 .. P.m |-> 0], P.m),
     pendings |-> Vector([j \in 0 .. P.n |->
                            IF j \in InSchedule(P, schedule)
                            THEN Cardinality(P.predecessors[j]) ELSE 0], P.n),
     count |-> 0,
     feasibility |-> TRUE]

\* Problem::start_time, the state of the simulator when its loop ends
Simulate(P, schedule) == Rounds(P, schedule, SimulatorStart(P, schedule))

\* the for loop over the lanes, were the lanes taken in the given order
RECURSIVE ScanOrder(_, _, _, _)
ScanOrder(P, schedule, st, order) ==
    IF order = <<>> THEN st
    ELSE ScanOrder(P, schedule, ScanLane(P, schedule, st, Head(order)), Tail(order))

\* the while loop of Problem::start_time around that for loop
RECURSIVE RoundsOrder(_, _, _, _)
RoundsOrder(P, schedule, st, order) ==
    IF st.count < P.n /\ st.feasibility
    THEN RoundsOrder(P, schedule,
                     ScanOrder(P, schedule, [st EXCEPT !.feasibility = FALSE], order), order)
    ELSE st

start_time(P, schedule) == Simulate(P, schedule).t

\* Problem::makespan
makespan(P, schedule) ==
    LET t == start_time(P, schedule) IN
    FoldMax([i \in 0 .. P.n |-> Add(t[i], P.p[i])], 1 .. P.n)

\* common::evaluate
RECURSIVE SumLast(_, _, _, _)
SumLast(P, schedule, t, l) ==
    IF l > P.m THEN 0
    ELSE LET rest == SumLast(P, schedule, t, l + 1) IN
         IF Len(schedule[l]) > 0
         THEN LET i == schedule[l][Len(schedule[l])] IN Add(Add(t[i], P.p[i]), rest)
         ELSE rest

\* variant of evaluate: lane 0 is handled as a team, only its last operation counts
evaluateLastOnly(P, schedule) ==
    LET t == start_time(P, schedule)
        completion == [i \in 0 .. P.n |-> Add(t[i], P.p[i])]
        lasts == {schedule[l][Len(schedule[l])] : l \in {k \in 0 .. P.m : Len(schedule[k]) > 0}}
    IN <<FoldMax(completion, lasts), SumLast(P, schedule, t, 1)>>

evaluate(P, schedule) ==
    LET t == start_time(P, schedule)
        completion == [i \in 0 .. P.n |-> Add(t[i], P.p[i])]
        lasts == {schedule[l][Len(schedule[l])] : l \in {k \in 1 .. P.m : Len(schedule[k]) > 0}}
        remote == {schedule[0][k] : k \in 1 .. Len(schedule[0])}
    IN <<Max2(FoldMax(completion, lasts), FoldMax(completion, remote)),
         SumLast(P, schedule, t, 1)>>

\* ------------------------------------------------------------ neighbourhoods
\* a set of index tuples of one length, as the sequence the nested for loops visit
LexLess(a, b) ==
    \E k \in 1 .. Len(a) : a[k] < b[k] /\ \A h \in 1 .. k - 1 : a[h] = b[h]

RECURSIVE InLoopOrder(_)
InLoopOrder(S) ==
    IF S = {} THEN <<>>
    ELSE LET x == CHOOSE y \in S : \A z \in S \ {y} : LexLess(y, z)
         IN <<x>> \o InLoopOrder(S \ {x})

\* Shift::best, the loops: <<l, idx_origin, idx_target>>
ShiftMoves(P, sc) ==
    InLoopOrder({mv \in (0 .. P.m) \X (0 .. P.n) \X (0 .. P.n) :
                    /\ mv[2] < Len(sc[mv[1]])
                    /\ mv[3] <= Len(sc[mv[1]]) - 1
                    /\ mv[3] # mv[2]})

\* Shift::best, "Build a neighbor"
ShiftApply(sc, mv) ==
    LET l == mv[1]
        i == sc[l][mv[2] + 1]
    IN [sc EXCEPT ![l] = InsertAt(EraseAt(sc[l], mv[2]), mv[3], i)]

\* Exchange::best, the loops: <<l, idx1, idx2>>
ExchangeMoves(P, sc) ==
    InLoopOrder({mv \in (0 .. P.m) \X (0 .. P.n) \X (0 .. P.n) :
                    /\ Len(sc[mv[1]]) >= 2
                    /\ mv[2] < Len(sc[mv[1]]) - 1
                    /\ mv[3] >= mv[2] + 1
                    /\ mv[3] < Len(sc[mv[1]])})

\* Exchange::best, "Build a neighbor"
ExchangeApply(sc, mv) ==
    LET l == mv[1]
        i_1 == sc[l][mv[2] + 1]
        i_2 == sc[l][mv[3] + 1]
    IN [sc EXCEPT ![l] = [[sc[l] EXCEPT ![mv[2] + 1] = i_2] EXCEPT ![mv[3] + 1] = i_1]]

\* Reassignment::best, the loops: <<l_origin, idx_origin, l_target, idx_target>>
ReassignmentMoves(P, sc) ==
    InLoopOrder({mv \in (1 .. P.m) \X (0 .. P.n) \X (1 .. P.m) \X (0 .. P.n) :
                    /\ mv[2] < Len(sc[mv[1]])
                    /\ mv[3] # mv[1]
                    /\ mv[4] <= Len(sc[mv[3]])})

\* variant of ReassignmentApply: the operation is inserted but not erased
ReassignmentApplyKeeps(sc, mv) ==
    [sc EXCEPT ![mv[3]] = InsertAt(sc[mv[3]], mv[4], sc[mv[1]][mv[2] + 1])]

\* Reassignment::best, "Build a neighbor"
ReassignmentApply(sc, mv) ==
    LET i == sc[mv[1]][mv[2] + 1]
        erased == [sc EXCEPT ![mv[1]] = EraseAt(sc[mv[1]], mv[2])]
    IN [erased EXCEPT ![mv[3]] = InsertAt(erased[mv[3]], mv[4], i)]

\* DirectSwap::best, the loops: <<l1, l2, idx1, idx2>>
DirectSwapMoves(P, sc) ==
    InLoopOrder({mv \in (1 .. P.m) \X (1 .. P.m) \X (0 .. P.n) \X (0 .. P.n) :
                    /\ Len(sc[mv[1]]) > 0
                    /\ mv[2] >= mv[1] + 1
                    /\ Len(sc[mv[2]]) > 0
                    /\ mv[3] < Len(sc[mv[1]])
                    /\ mv[4] < Len(sc[mv[2]])})

\* DirectSwap::best, "Build a neighbor"
DirectSwapApply(sc, mv) ==
    LET i_1 == sc[mv[1]][mv[3] + 1]
        i_2 == sc[mv[2]][mv[4] + 1]
    IN [[sc EXCEPT ![mv[1]][mv[3] + 1] = i_2] EXCEPT ![mv[2]][mv[4] + 1] = i_1]

\* "Update the best neighbor": the test made on every neighbour of a scan
Improves(neighbor_eval, best_eval) == Less(neighbor_eval, best_eval)

\* the scan of the neighbours in loop order, keeping the best one
RECURSIVE Scan(_, _, _, _)
Scan(P, neighbors, k, best) ==
    IF k > Len(neighbors) THEN best
    ELSE LET neighbor_eval == evaluate(P, neighbors[k]) IN
         Scan(P, neighbors, k + 1,
              IF Improves(neighbor_eval, best[2]) THEN <<neighbors[k], neighbor_eval>> ELSE best)

ShiftNeighbors(P, sc) ==
    LET mvs == ShiftMoves(P, sc) IN [k \in 1 .. Len(mvs) |-> ShiftApply(sc, mvs[k])]

ExchangeNeighbors(P, sc) ==
    LET mvs == ExchangeMoves(P, sc) IN [k \in 1 .. Len(mvs) |-> ExchangeApply(sc, mvs[k])]

ReassignmentNeighbors(P, sc) ==
    LET mvs == ReassignmentMoves(P, sc) IN [k \in 1 .. Len(mvs) |-> ReassignmentApply(sc, mvs[k])]

DirectSwapNeighbors(P, sc) ==
    LET mvs == DirectSwapMoves(P, sc) IN [k \in 1 .. Len(mvs) |-> DirectSwapApply(sc, mvs[k])]

ShiftBest(P, entry) == Scan(P, ShiftNeighbors(P, entry[1]), 1, entry)

ExchangeBest(P, entry) == Scan(P, ExchangeNeighbors(P, entry[1]), 1, entry)

ReassignmentBest(P, entry) == Scan(P, ReassignmentNeighbors(P, entry[1]), 1, entry)

DirectSwapBest(P, entry) == Scan(P, DirectSwapNeighbors(P, entry[1]), 1, entry)

\* Swap is listed by the driver but its code is not part of the sources at
\* hand: it is taken to behave as DirectSwap
SwapBest(P, entry) == DirectSwapBest(P, entry)

\* the driver's list of neighbourhoods, in its order
NeighborhoodList == <<"Shift", "Exchange", "Reassignment", "DirectSwap", "Swap">>

\* Neighborhood::best, the virtual call
Best(nb, P, entry) ==
    CASE nb = "Shift" -> ShiftBest(P, entry)
      [] nb = "Exchange" -> ExchangeBest(P, entry)
      [] nb = "Reassignment" -> ReassignmentBest(P, entry)
      [] nb = "DirectSwap" -> DirectSwapBest(P, entry)
      [] nb = "Swap" -> SwapBest(P, entry)

\* the neighbours a neighbourhood builds, each with the move that built it
Built(nb, P, sc) ==
    CASE nb = "Shift" ->
            LET mvs == ShiftMoves(P, sc) IN
            [k \in 1 .. Len(mvs) |-> [move |-> mvs[k], neighbor |-> ShiftApply(sc, mvs[k])]]
      [] nb = "Exchange" ->
            LET mvs == ExchangeMoves(P, sc) IN
            [k \in 1 .. Len(mvs) |-> [move |-> mvs[k], neighbor |-> ExchangeApply(sc, mvs[k])]]
      [] nb = "Reassignment" ->
            LET mvs == ReassignmentMoves(P, sc) IN
            [k \in 1 .. Len(mvs) |-> [move |-> mvs[k], neighbor |-> ReassignmentApply(sc, mvs[k])]]
      [] nb = "DirectSwap" ->
            LET mvs == DirectSwapMoves(P, sc) IN
            [k \in 1 .. Len(mvs) |-> [move |-> mvs[k], neighbor |-> DirectSwapApply(sc, mvs[k])]]

\* ------------------------------------------------------------ feasibility
\* common::less(double, double)
LessD(first, second) == Compare(first, second) = -1

Occurrences(P, schedule, i) ==
    Cardinality({<<l, k>> \in (0 .. P.m) \X (1 .. P.n + 1) :
                    k <= Len(schedule[l]) /\ schedule[l][k] = i})

\* variant of is_feasible: the number of assignments of each operation is not checked
is_feasibleUncounted(P, schedule) ==
    IF Cardinality(DOMAIN schedule) # P.m + 1
    THEN [ok |-> FALSE, msg |-> "The number of maintenance teams is wrong."]
    ELSE IF \E i \in InSchedule(P, schedule) : i < 1 \/ i > P.n
    THEN [ok |-> FALSE, msg |-> "Using invalid switch ID."]
    ELSE IF \E k \in 1 .. Len(schedule[0]) : P.technology[schedule[0][k]] # "REMOTE"
    THEN [ok |-> FALSE, msg |-> "Non-remote controlled switch assigned to dummy team 0."]
    ELSE IF \E l \in 1 .. P.m : \E k \in 1 .. Len(schedule[l]) :
                P.technology[schedule[l][k]] # "MANUAL"
    THEN [ok |-> FALSE, msg |-> "Non-manual controlled switch assigned to a maintenace team."]
    ELSE LET t == start_time(P, schedule) IN
         IF \E j \in 1 .. P.n : \E i \in P.predecessors[j] : LessD(t[j], t[i])
         THEN [ok |-> FALSE, msg |-> "Precedence rules violated."]
         ELSE [ok |-> TRUE, msg |-> "Feasible solution."]

\* variant of is_feasible: the technology of the teams' lanes is checked before the assignments
is_feasibleTeamsFirst(P, schedule) ==
    IF Cardinality(DOMAIN schedule) # P.m + 1
    THEN [ok |-> FALSE, msg |-> "The number of maintenance teams is wrong."]
    ELSE IF \E i \in InSchedule(P, schedule) : i < 1 \/ i > P.n
    THEN [ok |-> FALSE, msg |-> "Using invalid switch ID."]
    ELSE IF \E l \in 1 .. P.m : \E k \in 1 .. Len(schedule[l]) :
                P.technology[schedule[l][k]] # "MANUAL"
    THEN [ok |-> FALSE, msg |-> "Non-manual controlled switch assigned to a maintenace team."]
    ELSE IF \E i \in 1 .. P.n : Occurrences(P, schedule, i) # 1
    THEN [ok |-> FALSE,
          msg |-> "There are switches assigned to more than one team or not assigned to any team."]
    ELSE IF \E k \in 1 .. Len(schedule[0]) : P.technology[schedule[0][k]] # "REMOTE"
    THEN [ok |-> FALSE, msg |-> "Non-remote controlled switch assigned to dummy team 0."]
    ELSE LET t == start_time(P, schedule) IN
         IF \E j \in 1 .. P.n : \E i \in P.predecessors[j] : LessD(t[j], t[i])
         THEN [ok |-> FALSE, msg |-> "Precedence rules violated."]
         ELSE [ok |-> TRUE, msg |-> "Feasible solution."]

\* Problem::is_feasible: the verdict and the message
is_feasible(P, schedule) ==
    IF Cardinality(DOMAIN schedule) # P.m + 1
    THEN [ok |-> FALSE, msg |-> "The number of maintenance teams is wrong."]
    ELSE IF \E i \in InSchedule(P, schedule) : i < 1 \/ i > P.n
    THEN [ok |-> FALSE, msg |-> "Using invalid switch ID."]
    ELSE IF \E i \in 1 .. P.n : Occurrences(P, schedule, i) # 1
    THEN [ok |-> FALSE,
          msg |-> "There are switches assigned to more than one team or not assigned to any team."]
    ELSE IF \E k \in 1 .. Len(schedule[0]) : P.technology[schedule[0][k]] # "REMOTE"
    THEN [ok |-> FALSE, msg |-> "Non-remote controlled switch assigned to dummy team 0."]
    ELSE IF \E l \in 1 .. P.m : \E k \in 1 .. Len(schedule[l]) :
                P.technology[schedule[l][k]] # "MANUAL"
    THEN [ok |-> FALSE, msg |-> "Non-manual controlled switch assigned to a maintenace team."]
    ELSE LET t == start_time(P, schedule) IN
         IF \E j \in 1 .. P.n : \E i \in P.predecessors[j] : LessD(t[j], t[i])
         THEN [ok |-> FALSE, msg |-> "Precedence rules violated."]
         ELSE [ok |-> TRUE, msg |-> "Feasible solution."]

\* ------------------------------------------------------------ greedy
\* Greedy::solve, "Initialize the heuristic data"
GreedyInit(P) ==
    [schedule |-> create_empty_schedule(P.m),
     makespan |-> 0,
     S_manual |-> {i \in 1 .. P.n : P.technology[i] = "MANUAL"},
     S_remote |-> {i \in 1 .. P.n : P.technology[i] = "REMOTE"},
     t |-> Vector([i \in 0 .. P.n |-> 0], P.n),
     gamma |-> Vector([i \in 0 .. P.n |-> Cardinality(P.predecessors[i])], P.n),
     phi |-> Vector([l \in 0 .. P.m |-> 0], P.m),
     status |-> "running"]

\* variant of RemoteVisit: the counters of the successors are left as they were
RemoteVisitKeepsGamma(P, g, j) ==
    IF g.gamma[j] = 0
    THEN [g EXCEPT
            !.t[j] = FoldMax([i \in 0 .. P.n |-> Add(g.t[i], P.p[i])], P.predecessors[j]),
            !.schedule[0] = Append(@, j),
            !.S_remote = @ \ {j}]
    ELSE g

\* Greedy::solve, one visit of the iterator j over S_remote
RemoteVisit(P, g, j) ==
    IF g.gamma[j] = 0
    THEN [g EXCEPT
            !.t[j] = FoldMax([i \in 0 .. P.n |-> Add(g.t[i], P.p[i])], P.predecessors[j]),
            !.gamma = [i \in 0 .. P.n |-> IF i \in P.successors[j] THEN g.gamma[i] - 1
                                          ELSE g.gamma[i]],
            !.schedule[0] = Append(@, j),
            !.S_remote = @ \ {j}]
    ELSE g

\* one pass of the iterator over S_remote, ascending
RECURSIVE RemotePass(_, _, _)
RemotePass(P, g, todo) ==
    IF todo = {} THEN g
    ELSE LET j == CHOOSE x \in todo : \A y \in todo : x <= y
         IN RemotePass(P, RemoteVisit(P, g, j), todo \ {j})

\* "Remotely controlled switches": passes until one schedules nothing
RECURSIVE RemoteDrain(_, _)
RemoteDrain(P, g) ==
    LET g1 == RemotePass(P, g, g.S_remote) IN
    IF g1.S_remote # g.S_remote THEN RemoteDrain(P, g1) ELSE g1

\* "Choose a switch and a maintenance team": criterion of a pair
Criterion(P, g, j, l) == Add(Add(g.t[g.phi[l]], P.p[g.phi[l]]), P.s[g.phi[l]][j][l])

\* variant of ReadyPairs: the counter of unscheduled predecessors is not consulted
ReadyPairsAll(P, g) == g.S_manual \X (1 .. P.m)

ReadyPairs(P, g) == {jl \in g.S_manual \X (1 .. P.m) : g.gamma[jl[1]] = 0}

\* variant of ChosenPair: a later pair with an equal criterion replaces the one kept
ChosenPairLast(P, g) ==
    CHOOSE jl \in ReadyPairs(P, g) :
        \A o \in ReadyPairs(P, g) \ {jl} :
            \/ Criterion(P, g, jl[1], jl[2]) < Criterion(P, g, o[1], o[2])
            \/ /\ Criterion(P, g, jl[1], jl[2]) = Criterion(P, g, o[1], o[2])
               /\ LexLess(o, jl)

\* the pair the loops over j_trial and l_trial leave in (j, l)
ChosenPair(P, g) ==
    CHOOSE jl \in ReadyPairs(P, g) :
        \A o \in ReadyPairs(P, g) \ {jl} :
            \/ Criterion(P, g, jl[1], jl[2]) < Criterion(P, g, o[1], o[2])
            \/ /\ Criterion(P, g, jl[1], jl[2]) = Criterion(P, g, o[1], o[2])
               /\ LexLess(jl, o)

\* "Manually controlled switches": schedule the chosen pair
ManualStep(P, g) ==
    LET jl == ChosenPair(P, g)
        j == jl[1]
        l == jl[2]
        tj == Max2(Criterion(P, g, j, l),
                   FoldMax([i \in 0 .. P.n |-> Add(g.t[i], P.p[i])], P.predecessors[j]))
    IN [g EXCEPT
          !.t[j] = tj,
          !.gamma = [i \in 0 .. P.n |-> IF i \in P.successors[j] THEN g.gamma[i] - 1
                                        ELSE g.gamma[i]],
          !.schedule[l] = Append(@, j),
          !.phi[l] = j,
          !.makespan = Max2(@, Add(tj, P.p[j])),
          !.S_manual = @ \ {j}]

\* "Assignment and sequencing".  With no ready manual operation the pair
\* (j, l) is read uninitialised ("undefined"); with only blocked remote
\* operations left the loop never ends ("diverges").
RECURSIVE GreedyLoop(_, _)
GreedyLoop(P, g) ==
    IF g.S_manual \cup g.S_remote = {} THEN [g EXCEPT !.status = "done"]
    ELSE LET g1 == RemoteDrain(P, g) IN
         IF g1.S_manual # {}
         THEN IF ReadyPairs(P, g1) = {} THEN [g1 EXCEPT !.status = "undefined"]
              ELSE GreedyLoop(P, ManualStep(P, g1))
         ELSE IF g1 = g THEN [g1 EXCEPT !.status = "diverges"]
              ELSE GreedyLoop(P, g1)

\* Greedy::solve
GreedySolve(P) == GreedyLoop(P, GreedyInit(P))

\* ------------------------------------------------------------ generator
\* std::mt19937.  The state [kind |-> "any"] stands for a seed left open: each
\* draw can give each value.  The state [kind |-> "seeded", seed, count] is the
\* stream of one seed, count values into it; the value at a place of a stream
\* is a function of the seed and the place.  The kind "clock" is rvnd's
\* inner_generator, seeded from the system clock, standing in for the caller's
\* generator: each draw can give each value and the caller's is left as it was.
mt19937(seed, count) == (seed * seed * 11 + seed * count * 7 + count * count * 5 + count * 3 + seed) % 120

AnySeed == [kind |-> "any"]

Seeded(seed) == [kind |-> "seeded", seed |-> seed, count |-> 0]

\* generator() % k: the values it can give, each with the generator left behind
Draw(g, k) ==
    CASE g.kind = "any" -> {<<v, g>> : v \in 0 .. k - 1}
      [] g.kind = "clock" -> {<<v, [g EXCEPT !.kind = "seeded"]>> : v \in 0 .. k - 1}
      [] g.kind = "seeded" -> {<<mt19937(g.seed, g.count) % k, [g EXCEPT !.count = @ + 1]>>}

\* ------------------------------------------------------------ random neighbour
\* "l = 1 + generator() % m", drawn again while the lane is not an accepted one; the
\* lanes it can end on, each with the generator left (none when it is drawn more
\* than fuel times)
RECURSIVE DrawLane(_, _, _, _)
DrawLane(P, g, accepted, fuel) ==
    IF fuel = 0 THEN {}
    ELSE UNION {IF 1 + d[1] \in accepted THEN {<<1 + d[1], d[2]>>}
                ELSE DrawLane(P, d[2], accepted, fuel - 1)
                : d \in Draw(g, P.m)}

\* Reassignment::any, "Get a move": the moves <<l_origin, idx_origin, l_target,
\* idx_target>> the draws can give, each with the generator left
ReassignmentDraws(P, start_schedule, g) ==
    UNION {UNION {UNION {
        {<<<<lo[1], io[1], lt[1], it[1]>>, it[2]>> :
            it \in IF Len(start_schedule[lt[1]]) > 0
                   THEN Draw(io[2], Len(start_schedule[lt[1]]))
                   ELSE {<<0, io[2]>>}}
        : io \in Draw(lt[2], Len(start_schedule[lo[1]]))}
        : lt \in DrawLane(P, lo[2], (1 .. P.m) \ {lo[1]}, MaxRedraws)}
        : lo \in DrawLane(P, g, {l \in 1 .. P.m : Len(start_schedule[l]) >= 1}, MaxRedraws)}

\* Reassignment::any: the neighbours it can return, each with the move that built it
\* and the generator left; an infeasible one is returned unless feasible_only
RECURSIVE ReassignmentAny(_, _, _, _, _)
ReassignmentAny(P, entry, g, feasible_only, fuel) ==
    IF fuel = 0 THEN {}
    ELSE UNION {LET neighbor_schedule == ReassignmentApply(entry[1], d[1])
                    neighbor_eval == evaluate(P, neighbor_schedule)
                    success == neighbor_eval[1] # Inf
                IN IF ~feasible_only \/ success
                   THEN {[move |-> d[1], neighbor |-> <<neighbor_schedule, neighbor_eval>>,
                          generator |-> d[2]]}
                   ELSE ReassignmentAny(P, entry, d[2], feasible_only, fuel - 1)
                : d \in ReassignmentDraws(P, entry[1], g)}

\* ------------------------------------------------------------ perturbation
\* variant of TryInsert: the first position tried is kept whatever its makespan
TryInsertUnchecked(P, schedule, evaluation, l_origin, idx_origin, l_target, operation, indexes) ==
    LET moved == [schedule EXCEPT ![l_target] = InsertAt(@, Head(indexes), operation)]
    IN <<moved, evaluate(P, moved)>>

\* ILS::perturb, "Try to perform the movement" from position k of indexes on
RECURSIVE TryInsert(_, _, _, _, _, _, _, _)
TryInsert(P, schedule, evaluation, l_origin, idx_origin, l_target, operation, indexes) ==
    IF indexes = <<>>
    THEN <<[schedule EXCEPT ![l_origin] = InsertAt(@, idx_origin, operation)], evaluation>>
    ELSE LET moved == [schedule EXCEPT ![l_target] = InsertAt(@, Head(indexes), operation)]
             current_evaluation == evaluate(P, moved)
         IN IF current_evaluation[1] # Inf THEN <<moved, current_evaluation>>
            ELSE TryInsert(P, schedule, evaluation, l_origin, idx_origin, l_target, operation,
                           Tail(indexes))

\* ILS::perturb, one turn of the loop over the chain, the draws given
EjectionStep(P, pert, l_origin, l_target, idx_origin, indexes) ==
    LET schedule == pert[1]
        operation == schedule[l_origin][idx_origin + 1]
        erased == [schedule EXCEPT ![l_origin] = EraseAt(@, idx_origin)]
    IN TryInsert(P, erased, pert[2], l_origin, idx_origin, l_target, operation, indexes)

RECURSIVE AsSeq(_, _)
AsSeq(f, k) == IF k < 0 THEN <<>> ELSE Append(AsSeq(f, k - 1), f[k])

\* the orders std::shuffle can leave the positions 0 .. k in, one per value drawn
Shuffles(k) == InLoopOrder({AsSeq(f, k) : f \in Permutations(0 .. k)})

\* the orders std::shuffle can leave the chain of teams in, one per value drawn
Chains(m) == InLoopOrder({AsSeq([l \in 0 .. m - 1 |-> f[l + 1]], m - 1) : f \in Permutations(1 .. m)})

\* ILS::perturb from position k of the chain on: the results with the generator left
RECURSIVE EjectionChain(_, _, _, _, _)
EjectionChain(P, pert, chain, k, g) ==
    IF k > Len(chain) THEN {<<pert, g>>}
    ELSE LET l_origin == chain[k]
             l_target == chain[(k % Len(chain)) + 1]
             size == Len(pert[1][l_origin])
             orders == Shuffles(Len(pert[1][l_target]) - (IF l_target = l_origin THEN 1 ELSE 0))
         IN IF size = 0 THEN EjectionChain(P, pert, chain, k + 1, g)
            ELSE UNION {
                   UNION {EjectionChain(P,
                              EjectionStep(P, pert, l_origin, l_target, d1[1], orders[d2[1] + 1]),
                              chain, k + 1, d2[2])
                          : d2 \in Draw(d1[2], Len(orders))}
                   : d1 \in Draw(g, size)}

\* ILS::perturb: the results the generator can give, each with the generator left
perturb(P, entry, g) ==
    LET chains == Chains(P.m) IN
    UNION {EjectionChain(P, entry, chains[d[1] + 1], 1, d[2]) : d \in Draw(g, Len(chains))}

\* ------------------------------------------------------------ local search
NoLs == [method |-> "none"]

\* vnd / rvnd, "Keep the best solution found" and the list of neighbourhoods
LsBegin(method, entry) ==
    [method |-> method, entry |-> entry, incumbent |-> entry, k |-> 1,
     available |-> NeighborhoodList]

\* standard, one turn of the while loop; k > 1 stands for stop = true
StandardStep(P, st, neighborhood) ==
    LET trial == Best(neighborhood, P, st.incumbent) IN
    IF Less(trial[2], st.incumbent[2])
    THEN [st EXCEPT !.incumbent = trial]
    ELSE [st EXCEPT !.k = @ + 1]

\* variant of VndStep: the next neighbourhood is taken after an improvement too
VndStepOnward(P, st) ==
    LET trial == Best(NeighborhoodList[st.k], P, st.incumbent) IN
    IF Less(trial[2], st.incumbent[2])
    THEN [st EXCEPT !.incumbent = trial, !.k = @ + 1]
    ELSE [st EXCEPT !.k = @ + 1]

\* vnd, one turn of the while loop
VndStep(P, st) ==
    LET neighborhood == NeighborhoodList[st.k]
        trial == Best(neighborhood, P, st.incumbent)
    IN IF Less(trial[2], st.incumbent[2])
       THEN [st EXCEPT !.incumbent = trial, !.k = 1]
       ELSE [st EXCEPT !.k = @ + 1]

\* variant of RvndStep: the first neighbourhood of the pool is erased, not the drawn one
RvndStepErasesFirst(P, st, idx) ==
    LET trial == Best(st.available[idx + 1], P, st.incumbent) IN
    IF Less(trial[2], st.incumbent[2])
    THEN [st EXCEPT !.incumbent = trial, !.available = NeighborhoodList]
    ELSE [st EXCEPT !.available = EraseAt(st.available, 0)]

\* variant of RvndStep: the list of available neighbourhoods is not reset
RvndStepNoReset(P, st, idx) ==
    LET trial == Best(st.available[idx + 1], P, st.incumbent) IN
    IF Less(trial[2], st.incumbent[2])
    THEN [st EXCEPT !.incumbent = trial, !.available = EraseAt(st.available, idx)]
    ELSE [st EXCEPT !.available = EraseAt(st.available, idx)]

\* rvnd, one turn of the while loop, idx the drawn index
RvndStep(P, st, idx) ==
    LET neighborhood == st.available[idx + 1]
        erased == EraseAt(st.available, idx)
        trial == Best(neighborhood, P, st.incumbent)
    IN IF Less(trial[2], st.incumbent[2])
       THEN [st EXCEPT !.incumbent = trial, !.available = NeighborhoodList]
       ELSE [st EXCEPT !.available = erased]

\* variant of RvndGenerator: inner_generator, as if the caller passed nullptr
RvndGeneratorClock(g) == [g EXCEPT !.kind = "clock"]

\* rvnd, "Random number generator": the generator the caller hands over is the
\* one drawn from (the driver never passes nullptr)
RvndGenerator(g) == g

\* the loop condition of the running local search is false
LsEnded(st) ==
    \/ st.method = "standard" /\ st.k > 1
    \/ st.method = "vnd" /\ st.k > Len(NeighborhoodList)
    \/ st.method = "rvnd" /\ st.available = <<>>

\* local_search::vnd: the while loop run from its start to its end
RECURSIVE VndRun(_, _)
VndRun(P, st) == IF LsEnded(st) THEN st.incumbent ELSE VndRun(P, VndStep(P, st))

\* local_search::vnd
vnd(P, entry) == VndRun(P, LsBegin("vnd", entry))

InLocalSearch == pc \in {"ls_initial", "ls_trial", "ls_harness"}

Standard ==
    /\ InLocalSearch
    /\ ls.method = "standard"
    /\ ~LsEnded(ls)
    /\ ls' = StandardStep(problem, ls, params.neighborhood)
    /\ UNCHANGED <<problem, pc, params, ils, generator, history, result, runs, sched, out>>

Vnd ==
    /\ InLocalSearch
    /\ ls.method = "vnd"
    /\ ~LsEnded(ls)
    /\ ls' = VndStep(problem, ls)
    /\ UNCHANGED <<problem, pc, params, ils, generator, history, result, runs, sched, out>>

Rvnd ==
    /\ InLocalSearch
    /\ ls.method = "rvnd"
    /\ ~LsEnded(ls)
    /\ \E d \in Draw(RvndGenerator(generator), Len(ls.available)) :
          /\ ls' = RvndStep(problem, ls, d[1])
          /\ generator' = d[2]
    /\ UNCHANGED <<problem, pc, params, ils, history, result, runs, sched, out>>

\* ------------------------------------------------------------ ILS
LONG_MAX == 1000000

NoParams == [local_search_method |-> "none"]

NoIls ==
    [start |-> <<>>, incumbent |-> <<>>, perturbed |-> <<>>, iteration |-> 0,
     perturbation_passes |-> 0, iteration_last_improvement |-> 0, i |-> 0]

NoHistory == [all |-> {}, since |-> {}]

\* ILS::solve, "Build a start solution with a greedy heuristic" and the call
\* of the local search on it
IlsStart ==
    /\ pc = "start"
    /\ LET start_schedule == GreedySolve(problem).schedule
           start == <<start_schedule, evaluate(problem, start_schedule)>>
       IN /\ ils' = [ils EXCEPT !.start = start]
          /\ ls' = LsBegin(params.local_search_method, start)
    /\ pc' = "ls_initial"
    /\ UNCHANGED <<problem, params, generator, history, result, runs, sched, out>>

\* "Find a local optimum from the start solution", the call returns
IlsInitialOptimum ==
    /\ pc = "ls_initial"
    /\ LsEnded(ls)
    /\ ils' = [ils EXCEPT !.incumbent = ls.incumbent, !.iteration = 0,
                          !.perturbation_passes = 1, !.iteration_last_improvement = 0]
    /\ history' = [all |-> {ls.incumbent[2]}, since |-> {}]
    /\ ls' = NoLs
    /\ pc' = "loop"
    /\ UNCHANGED <<problem, params, generator, result, runs, sched, out>>

\* the condition of the while loop; the clock is read here and only here
LoopCondition(timer_below_limit) ==
    /\ ils.iteration < params.iterations_limit
    /\ timer_below_limit
    /\ ils.perturbation_passes <= params.perturbation_passes_limit

\* timer.count() < time_limit: true with the limit at the largest double, and
\* either value, as the clock decides, with a limit the run can reach
TimerBelowLimit == IF params.time_limit = "max" THEN {TRUE} ELSE BOOLEAN

\* ++iteration.  The counter is kept exact up to MaxIterations + 1; above that
\* it is only ever read as being below LONG_MAX.
Increment(iteration) == IF iteration <= MaxIterations THEN iteration + 1 ELSE iteration

\* the loop is entered: "Increment the iteration counter" and the first perturb
IlsIterate ==
    /\ pc = "loop"
    /\ \E timer_below_limit \in TimerBelowLimit : LoopCondition(timer_below_limit)
    /\ \E r \in perturb(problem, ils.incumbent, generator) :
          /\ ils' = [ils EXCEPT !.iteration = Increment(@), !.perturbed = r[1], !.i = 1]
          /\ generator' = r[2]
    /\ pc' = "perturbation"
    /\ UNCHANGED <<problem, params, ls, history, result, runs, sched, out>>

\* "Perturbation phase", one turn of the for loop
IlsPerturbAgain ==
    /\ pc = "perturbation"
    /\ ils.i < ils.perturbation_passes
    /\ \E r \in perturb(problem, ils.perturbed, generator) :
          /\ ils' = [ils EXCEPT !.perturbed = r[1], !.i = @ + 1]
          /\ generator' = r[2]
    /\ UNCHANGED <<problem, pc, params, ls, history, result, runs, sched, out>>

\* variant of LocalSearchEntry: the local search is called on the perturbed schedule
LocalSearchEntryPerturbed(locals) == locals.perturbed

\* the schedule the local search of an iteration is called on
LocalSearchEntry(locals) == locals.start

\* "Local search", the call
IlsLocalSearch ==
    /\ pc = "perturbation"
    /\ ~(ils.i < ils.perturbation_passes)
    /\ ls' = LsBegin(params.local_search_method, LocalSearchEntry(ils))
    /\ pc' = "ls_trial"
    /\ UNCHANGED <<problem, params, ils, generator, history, result, runs, sched, out>>

\* variant of Adopts: the operands the other way round
AdoptsGreater(trial_eval, incumbent_eval) == Less(incumbent_eval, trial_eval)

\* "Check for improvements": the test on the trial the local search returned
Adopts(trial_eval, incumbent_eval) == Less(trial_eval, incumbent_eval)

\* "Check for improvements", with the return of the local search; perturbed and
\* trial, declared in the body of the loop, end with the iteration
IlsCheck ==
    /\ pc = "ls_trial"
    /\ LsEnded(ls)
    /\ LET trial == ls.incumbent IN
       IF Adopts(trial[2], ils.incumbent[2])
       THEN /\ ils' = [ils EXCEPT !.incumbent = trial,
                                  !.iteration_last_improvement = ils.iteration,
                                  !.perturbation_passes = 1,
                                  !.perturbed = <<>>, !.i = 0]
            /\ history' = [all |-> history.all \cup {trial[2]}, since |-> {}]
       ELSE /\ ils' = [ils EXCEPT !.perturbation_passes = @ + 1,
                                  !.perturbed = <<>>, !.i = 0]
            /\ history' = [all |-> history.all \cup {trial[2]},
                           since |-> history.since \cup {trial[2]}]
    /\ ls' = NoLs
    /\ pc' = "loop"
    /\ UNCHANGED <<problem, params, generator, result, runs, sched, out>>

\* the loop ends: "Return the solution built"
IlsReturn ==
    /\ pc = "loop"
    /\ \E timer_below_limit \in TimerBelowLimit : ~LoopCondition(timer_below_limit)
    /\ result' = <<ils.incumbent[1], ils.incumbent[2][1]>>
    /\ pc' = "done"
    /\ UNCHANGED <<problem, params, ils, ls, generator, history, runs, sched, out>>

\* ------------------------------------------------------------ instances
Edges == {e \in Ops \X Ops : e[1] # e[2]}

RECURSIVE Reach(_, _)
Reach(E, S) ==
    LET T == S \cup {e[2] : e \in {d \in E : d[1] \in S}} IN IF T = S THEN S ELSE Reach(E, T)

Acyclic(E) == \A e \in E : e[1] \notin Reach(E, {e[2]})

EdgeSets == {E \in SUBSET Edges : Cardinality(E) <= MaxEdges /\ Acyclic(E)}

PredecessorsOf(E) == [j \in Ops |-> {e[1] : e \in {d \in E : d[2] = j}}]

ProcProfiles ==
    {[i \in Ops |-> 1], [i \in Ops |-> i], [i \in Ops |-> i % 3]}

TravelProfiles ==
    {[i \in 0 .. NumOps |-> [j \in 0 .. NumOps |-> [l \in Teams |-> 1]]],
     [i \in 0 .. NumOps |-> [j \in 0 .. NumOps |-> [l \in Teams |-> l]]],
     [i \in 0 .. NumOps |-> [j \in 0 .. NumOps |-> [l \in Teams |-> (2 * i + 5 * j) % 6]]]}

Instances ==
    {LoadProblem(tech, proc, travel, PredecessorsOf(E)) :
        tech \in [Ops -> {"MANUAL", "REMOTE"}], proc \in ProcProfiles,
        travel \in TravelProfiles, E \in EdgeSets}

\* every way to lay the operations out over the lanes, each exactly once
RECURSIVE Layouts(_)
Layouts(S) ==
    IF S = {} THEN {create_empty_schedule(NumTeams)}
    ELSE LET x == CHOOSE y \in S : \A z \in S : z <= y IN
         UNION {UNION {{[sc EXCEPT ![l] = InsertAt(sc[l], idx, x)] : idx \in 0 .. Len(sc[l])}
                       : l \in Lanes}
                : sc \in Layouts(S \ {x})}

\* the technology that makes a layout respect the routing of the operations
Routed(P, sc) ==
    \A l \in Lanes : \A k \in 1 .. Len(sc[l]) :
        P.technology[sc[l][k]] = (IF l = 0 THEN "REMOTE" ELSE "MANUAL")

\* ------------------------------------------------------------ harness
\* The pure functions, applied once to a schedule drawn with its instance.
InitEval ==
    /\ sched \in Layouts(Ops)
    /\ problem \in {q \in Instances : Routed(q, sched)}
    /\ pc = "harness"
    /\ out = [op |-> "none"]
    /\ params = NoParams
    /\ ils = NoIls
    /\ ls = NoLs
    /\ generator = AnySeed
    /\ history = NoHistory
    /\ result = <<>>
    /\ runs = <<>>

\* common::evaluate, Problem::start_time and Problem::makespan on sched
DoEvaluate ==
    /\ pc = "harness"
    /\ out.op = "none"
    /\ out' = [op |-> "evaluate", t |-> start_time(problem, sched),
               eval |-> evaluate(problem, sched), makespan |-> makespan(problem, sched),
               count |-> Simulate(problem, sched).count]
    /\ UNCHANGED <<problem, pc, params, ils, ls, generator, history, result, runs, sched>>

\* the same functions on sched and on sched with lane 0 in another order
DoPermute ==
    /\ pc = "harness"
    /\ out.op = "none"
    /\ \E perm \in Permutations(1 .. Len(sched[0])) :
          LET other == [sched EXCEPT ![0] = [k \in 1 .. Len(sched[0]) |-> sched[0][perm[k]]]] IN
          /\ other # sched
          /\ out' = [op |-> "permute", other |-> other,
                     t |-> start_time(problem, sched), t_other |-> start_time(problem, other),
                     eval |-> evaluate(problem, sched), eval_other |-> evaluate(problem, other),
                     makespan |-> makespan(problem, sched),
                     makespan_other |-> makespan(problem, other)]
    /\ UNCHANGED <<problem, pc, params, ils, ls, generator, history, result, runs, sched>>

NextEval == DoEvaluate \/ DoPermute

SpecEval == InitEval /\ [][NextEval]_vars

\* Neighborhood::best on the entry <<sched, evaluate(sched)>>
DoBest(nb) ==
    /\ pc = "harness"
    /\ out.op = "none"
    /\ LET entry == <<sched, evaluate(problem, sched)>> IN
       out' = [op |-> "best", nb |-> nb, entry |-> entry, result |-> Best(nb, problem, entry)]
    /\ UNCHANGED <<problem, pc, params, ils, ls, generator, history, result, runs, sched>>

\* the neighbours a neighbourhood builds from sched
DoBuild(nb) ==
    /\ pc = "harness"
    /\ out.op = "none"
    /\ out' = [op |-> "build", nb |-> nb, built |-> Built(nb, problem, sched)]
    /\ UNCHANGED <<problem, pc, params, ils, ls, generator, history, result, runs, sched>>

NextNbh ==
    \/ \E nb \in {"Shift", "Exchange", "Reassignment", "DirectSwap"} : DoBest(nb)
    \/ \E nb \in {"Shift", "Exchange", "Reassignment", "DirectSwap"} : DoBuild(nb)

SpecNbh == InitEval /\ [][NextNbh]_vars

\* ------------------------------------------------------------ ILS run
ParamSets ==
    [local_search_method : {"vnd", "rvnd"},
     iterations_limit : (1 .. MaxIterations) \cup {LONG_MAX},
     perturbation_passes_limit : 1 .. MaxPasses,
     time_limit : {"max", "finite"}]

\* the instances the driver and the local searches are run on
IlsInstances ==
    {q \in Instances :
        /\ q.technology \in {[i \in Ops |-> "MANUAL"],
                             [i \in Ops |-> IF i = 1 THEN "REMOTE" ELSE "MANUAL"]}
        /\ \A i \in Ops : q.p[i] = i % 3
        /\ \A i \in Ops : \A j \in Ops : \A l \in Teams : q.s[i][j][l] = (2 * i + 5 * j) % 6
        /\ \A j \in Ops : q.predecessors[j] \subseteq (IF j = 2 THEN {1} ELSE {})}

\* the instances the local searches are called on alone
LsInstances ==
    {q \in Instances :
        /\ \A i \in Ops : q.p[i] = i % 3
        /\ \A i \in Ops : \A j \in Ops : \A l \in Teams : q.s[i][j][l] = (2 * i + 5 * j) % 6
        /\ \A j \in Ops : q.predecessors[j] \in (IF j = 2 THEN {{}, {1}, {3}} ELSE {{}})}

\* local_search::vnd / rvnd called on the entry <<sched, evaluate(sched)>>
InitLS ==
    /\ sched \in Layouts(Ops)
    /\ problem \in {q \in LsInstances : Routed(q, sched)}
    /\ params \in {[local_search_method |-> method] : method \in {"vnd", "rvnd"}}
    /\ pc = "harness"
    /\ out = [op |-> "none"]
    /\ ils = NoIls
    /\ ls = NoLs
    /\ generator = AnySeed
    /\ history = NoHistory
    /\ result = <<>>
    /\ runs = <<>>

LsCall ==
    /\ pc = "harness"
    /\ out.op = "none"
    /\ ls' = LsBegin(params.local_search_method, <<sched, evaluate(problem, sched)>>)
    /\ pc' = "ls_harness"
    /\ UNCHANGED <<problem, params, ils, generator, history, result, runs, sched, out>>

LsReturn ==
    /\ pc = "ls_harness"
    /\ LsEnded(ls)
    /\ out' = [op |-> "local_search", entry |-> ls.entry, result |-> ls.incumbent]
    /\ ls' = NoLs
    /\ pc' = "harness"
    /\ UNCHANGED <<problem, params, ils, generator, history, result, runs, sched>>

NextLS == LsCall \/ Vnd \/ Rvnd \/ LsReturn

SpecLS == InitLS /\ [][NextLS]_vars

\* ILS::solve, with the seed left open
Init ==
    /\ problem \in IlsInstances
    /\ params \in ParamSets
    /\ pc = "start"
    /\ ils = NoIls
    /\ ls = NoLs
    /\ generator = AnySeed
    /\ history = NoHistory
    /\ result = <<>>
    /\ runs = <<>>
    /\ sched = <<>>
    /\ out = [op |-> "none"]

Next ==
    \/ IlsStart
    \/ Vnd
    \/ Rvnd
    \/ IlsInitialOptimum
    \/ IlsIterate
    \/ IlsPerturbAgain
    \/ IlsLocalSearch
    \/ IlsCheck
    \/ IlsReturn

Spec == Init /\ [][Next]_vars

\* ILS::solve on the runs whose end is looked at: rvnd with one pass at most
InitFair ==
    /\ Init
    /\ params.local_search_method = "rvnd" => params.perturbation_passes_limit = 1

\* solve has not returned: the one thread of the program has a next statement
Running == pc # "done"

\* an action enabled exactly while solve has not returned
Proceed ==
    /\ Running
    /\ pc' = "done"
    /\ UNCHANGED <<problem, params, ils, ls, generator, history, result, runs, sched, out>>

\* the thread runs on until solve returns. Next is enabled exactly in the states
\* where Running holds, and under [][Next]_vars every step is a step of Next, so
\* this is weak fairness of Next with its enabling condition written out
FairSpec == InitFair /\ [][Next]_vars /\ WF_vars(Proceed \/ Next)

\* ILS::solve run twice on one problem, one seed and one set of parameters
InitDet ==
    /\ problem \in IlsInstances
    /\ params \in ParamSets
    /\ pc = "start"
    /\ ils = NoIls
    /\ ls = NoLs
    /\ generator \in {Seeded(seed) : seed \in 0 .. MaxSeed}
    /\ history = NoHistory
    /\ result = <<>>
    /\ runs = <<>>
    /\ sched = <<>>
    /\ out = [op |-> "none"]

\* the second call of ILS::solve: generator.seed(seed) again, the clock running on
Rerun ==
    /\ pc = "done"
    /\ runs = <<>>
    /\ runs' = <<result>>
    /\ generator' = Seeded(generator.seed)
    /\ pc' = "start"
    /\ ils' = NoIls
    /\ ls' = NoLs
    /\ history' = NoHistory
    /\ result' = <<>>
    /\ UNCHANGED <<problem, params, sched, out>>

NextDet == Next \/ Rerun

SpecDet == InitDet /\ [][NextDet]_vars
\* ------------------------------------------------------------ feasibility harness
\* the identifiers a caller may write into a schedule, valid or not
Ids == 0 .. NumOps + 1

SeqsUpTo(len) == UNION {[1 .. k -> Ids] : k \in 0 .. len}

\* the schedules with lanes 0 .. hi that hold at most len identifiers in all
RECURSIVE Fill(_, _)
Fill(hi, len) ==
    IF hi = 0 THEN {0 :> q : q \in SeqsUpTo(len)}
    ELSE UNION {{f @@ (hi :> q) : f \in Fill(hi - 1, len - Len(q))} : q \in SeqsUpTo(len)}

\* schedules as a caller may hand them to is_feasible: the right number of lanes or
\* one lane short, any identifiers, operations missing or repeated
AnySchedules == Fill(NumTeams, NumOps) \cup Fill(NumTeams - 1, 1)

FeasInstances ==
    {LoadProblem(tech, [i \in Ops |-> i], [i \in 0 .. NumOps |-> [j \in 0 .. NumOps |-> [l \in Teams |-> l]]],
                 PredecessorsOf(E)) :
        tech \in [Ops -> {"MANUAL", "REMOTE"}],
        E \in {D \in EdgeSets : Cardinality(D) <= 1}}

InitFeas ==
    /\ problem \in FeasInstances
    /\ sched \in AnySchedules
    /\ pc = "harness"
    /\ params = NoParams
    /\ ils = NoIls
    /\ ls = NoLs
    /\ generator = AnySeed
    /\ history = NoHistory
    /\ result = <<>>
    /\ runs = <<>>
    /\ out = [op |-> "none"]

\* a call of Problem::is_feasible with a message pointer; the start times recorded
\* beside the verdict are those of Problem::start_time on the same schedule
DoFeasible ==
    /\ pc = "harness"
    /\ out.op = "none"
    /\ LET verdict == is_feasible(problem, sched) IN
       out' = [op |-> "is_feasible", ok |-> verdict.ok, msg |-> verdict.msg,
               t |-> IF verdict.ok THEN start_time(problem, sched) ELSE <<>>]
    /\ UNCHANGED <<problem, pc, params, ils, ls, generator, history, result, runs, sched>>

NextFeas == DoFeasible

SpecFeas == InitFeas /\ [][NextFeas]_vars

\* ------------------------------------------------------------ problem harness
InitProblem ==
    /\ problem \in Instances
    /\ sched = create_empty_schedule(NumTeams)
    /\ pc = "harness"
    /\ params = NoParams
    /\ ils = NoIls
    /\ ls = NoLs
    /\ generator = AnySeed
    /\ history = NoHistory
    /\ result = <<>>
    /\ runs = <<>>
    /\ out = [op |-> "none"]

\* Problem::Problem, the precedence matrix and the successor sets it leaves
DoLoad ==
    /\ pc = "harness"
    /\ out.op = "none"
    /\ out' = [op |-> "load", precedence |-> precedence(problem),
               successors |-> problem.successors]
    /\ UNCHANGED <<problem, pc, params, ils, ls, generator, history, result, runs, sched>>

\* Greedy::solve, called as main.cpp calls it; sched takes the schedule returned
DoGreedy ==
    /\ pc = "harness"
    /\ out.op = "none"
    /\ LET g == GreedySolve(problem) IN
       /\ out' = [op |-> "greedy", status |-> g.status, makespan |-> g.makespan]
       /\ sched' = g.schedule
    /\ UNCHANGED <<problem, pc, params, ils, ls, generator, history, result, runs>>

NextProblem == DoLoad \/ DoGreedy

SpecProblem == InitProblem /\ [][NextProblem]_vars

\* ------------------------------------------------------------ random neighbour harness
\* Reassignment::any on sched: one of the neighbours it can return, recorded with
\* the schedules of all of them
DoAny(feasible_only) ==
    /\ pc = "harness"
    /\ out.op = "none"
    /\ LET entry == <<sched, evaluate(problem, sched)>>
           returns == ReassignmentAny(problem, entry, generator, feasible_only, MaxRedraws)
       IN \E r \in returns :
            /\ out' = [op |-> "any", feasible_only |-> feasible_only, move |-> r.move,
                       result |-> r.neighbor,
                       possible |-> {o.neighbor[1] : o \in returns}]
            /\ generator' = r.generator
    /\ UNCHANGED <<problem, pc, params, ils, ls, history, result, runs, sched>>

NextAny == \E feasible_only \in BOOLEAN : DoAny(feasible_only)

SpecAny == InitEval /\ [][NextAny]_vars

\* ------------------------------------------------------------ the three local searches
\* an instance with manual switches only, equal processing times and travel
\* times that depend on the team
EqualTimesInstance ==
    LoadProblem([i \in Ops |-> "MANUAL"], [i \in Ops |-> 2],
                [i \in 0 .. NumOps |-> [j \in 0 .. NumOps |-> [l \in Teams |->
                    (2 * i + 3 * j + l) % 6]]],
                [j \in Ops |-> {}])

SearchInstances == LsInstances \cup {EqualTimesInstance}

\* local_search::standard, vnd / rvnd called on the entry <<sched, evaluate(sched)>>
InitSearch ==
    /\ sched \in Layouts(Ops)
    /\ problem \in {q \in SearchInstances : Routed(q, sched)}
    /\ params \in {[local_search_method |-> "standard", neighborhood |-> nb] :
                      nb \in {"Shift", "Exchange", "Reassignment", "DirectSwap"}}
                  \cup {[local_search_method |-> method, neighborhood |-> "none"] :
                           method \in {"vnd", "rvnd"}}
    /\ pc = "harness"
    /\ out = [op |-> "none"]
    /\ ils = NoIls
    /\ ls = NoLs
    /\ generator = AnySeed
    /\ history = NoHistory
    /\ result = <<>>
    /\ runs = <<>>

NextSearch == LsCall \/ Standard \/ Vnd \/ Rvnd \/ LsReturn

SpecSearch == InitSearch /\ [][NextSearch]_vars

\* ------------------------------------------------------------ greedy, step by step
\* two manual switches, p = (3, 4), 1 before 2, every travel time 1.  Greedy
\* compares times with < and max only, so the times of this instance are
\* written in its own unit
TwoSwitchInstance ==
    [n |-> 2, m |-> 2,
     technology |-> [i \in 1 .. 2 |-> "MANUAL"],
     p |-> [i \in 0 .. 2 |-> IF i = 0 THEN 0 ELSE i + 2],
     s |-> [i \in 0 .. 2 |-> [j \in 0 .. 2 |-> [l \in 0 .. 2 |-> IF l = 0 THEN 0 ELSE 1]]],
     predecessors |-> [j \in 0 .. 2 |-> IF j = 2 THEN {1} ELSE {}],
     successors |-> [i \in 0 .. 2 |-> IF i = 1 THEN {2} ELSE {}]]

InitGreedy ==
    /\ problem \in Instances \cup {TwoSwitchInstance}
    /\ sched = create_empty_schedule(NumTeams)
    /\ pc = "harness"
    /\ params = NoParams
    /\ ils = NoIls
    /\ ls = NoLs
    /\ generator = AnySeed
    /\ history = NoHistory
    /\ result = <<>>
    /\ runs = <<>>
    /\ out = [op |-> "none"]

\* Greedy::solve up to its while loop; out.g holds its local variables
GreedyBegin ==
    /\ pc = "harness"
    /\ out.op = "none"
    /\ out' = [op |-> "greedy_run", at |-> "remote", g |-> GreedyInit(problem)]
    /\ UNCHANGED <<problem, pc, params, ils, ls, generator, history, result, runs, sched>>

\* one turn of the while loop, "Remotely controlled switches"
GreedyRemote ==
    /\ out.op = "greedy_run"
    /\ out.at = "remote"
    /\ out.g.S_manual \cup out.g.S_remote # {}
    /\ out' = [out EXCEPT !.at = "manual", !.g = RemoteDrain(problem, out.g)]
    /\ UNCHANGED <<problem, pc, params, ils, ls, generator, history, result, runs, sched>>

\* the same turn, "Manually controlled switches"; with no ready pair j and l are
\* read uninitialised and the run is given up as undefined
GreedyManual ==
    /\ out.op = "greedy_run"
    /\ out.at = "manual"
    /\ out' = IF out.g.S_manual = {} THEN [out EXCEPT !.at = "remote"]
              ELSE IF ReadyPairs(problem, out.g) = {}
              THEN [op |-> "greedy", status |-> "undefined", makespan |-> out.g.makespan]
              ELSE [out EXCEPT !.at = "remote", !.g = ManualStep(problem, out.g)]
    /\ UNCHANGED <<problem, pc, params, ils, ls, generator, history, result, runs, sched>>

\* "Return the solution"
GreedyReturn ==
    /\ out.op = "greedy_run"
    /\ out.at = "remote"
    /\ out.g.S_manual \cup out.g.S_remote = {}
    /\ out' = [op |-> "greedy", status |-> "done", makespan |-> out.g.makespan]
    /\ sched' = out.g.schedule
    /\ UNCHANGED <<problem, pc, params, ils, ls, generator, history, result, runs>>

NextGreedy == GreedyBegin \/ GreedyRemote \/ GreedyManual \/ GreedyReturn

SpecGreedy == InitGreedy /\ [][NextGreedy]_vars

\* ------------------------------------------------------------ NEH
\* NEH::solve, "Remotely controlled switches": passes of the iterator over S_remote,
\* ascending, until one schedules nothing (stop stays true)
RECURSIVE NehDrain(_, _, _, _)
NehDrain(P, g, todo, stop) ==
    IF todo = {} THEN IF stop THEN g ELSE NehDrain(P, g, g.S_remote, TRUE)
    ELSE LET j == CHOOSE x \in todo : \A y \in todo : x <= y IN
         IF g.gamma[j] = 0
         THEN NehDrain(P,
                       [g EXCEPT
                          !.gamma = [i \in 0 .. P.n |-> IF i \in P.successors[j]
                                                        THEN g.gamma[i] - 1 ELSE g.gamma[i]],
                          !.schedule[0] = Append(@, j),
                          !.S_remote = @ \ {j}],
                       todo \ {j}, FALSE)
         ELSE NehDrain(P, g, todo \ {j}, stop)

\* the loops over j_trial, l_trial and idx_trial: <<j_trial, l_trial, idx_trial>>
NehTrials(P, g) ==
    InLoopOrder({tr \in g.S_manual \X (1 .. P.m) \X (0 .. P.n) :
                    g.gamma[tr[1]] = 0 /\ tr[3] <= Len(g.schedule[tr[2]])})

\* trial_objective: the largest completion time over the operations of the schedule
NehObjective(P, schedule) ==
    LET t == start_time(P, schedule) IN
    FoldMax([i \in 0 .. P.n |-> Add(t[i], P.p[i])], InSchedule(P, schedule))

\* the body of the three loops from trial k on; best holds best_objective and the
\* triple best_j, best_l, best_idx (<<>> while they are unassigned)
RECURSIVE NehScan(_, _, _, _, _)
NehScan(P, g, trials, k, best) ==
    IF k > Len(trials) THEN best
    ELSE LET tr == trials[k]
             trial_objective ==
                 NehObjective(P, [g.schedule EXCEPT ![tr[2]] = InsertAt(@, tr[3], tr[1])])
         IN NehScan(P, g, trials, k + 1,
                    IF LessD(trial_objective, best.objective)
                    THEN [objective |-> trial_objective, triple |-> tr]
                    ELSE best)

\* "Manually controlled switches": the kept triple is inserted
NehStep(P, g) ==
    LET best == NehScan(P, g, NehTrials(P, g), 1, [objective |-> Inf, triple |-> <<>>])
        best_j == best.triple[1]
        best_l == best.triple[2]
        best_idx == best.triple[3]
    IN [g EXCEPT
          !.gamma = [i \in 0 .. P.n |-> IF i \in P.successors[best_j] THEN g.gamma[i] - 1
                                        ELSE g.gamma[i]],
          !.schedule[best_l] = InsertAt(@, best_idx, best_j),
          !.S_manual = @ \ {best_j}]

\* NEH::solve up to its while loop; out.g holds its local variables
NehBegin ==
    /\ pc = "harness"
    /\ out.op = "none"
    /\ out' = [op |-> "neh_run", at |-> "remote",
               g |-> [schedule |-> create_empty_schedule(problem.m),
                      S_manual |-> {i \in 1 .. problem.n : problem.technology[i] = "MANUAL"},
                      S_remote |-> {i \in 1 .. problem.n : problem.technology[i] = "REMOTE"},
                      gamma |-> Vector([i \in 0 .. problem.n |->
                                           Cardinality(problem.predecessors[i])], problem.n)]]
    /\ UNCHANGED <<problem, pc, params, ils, ls, generator, history, result, runs, sched>>

\* one turn of the while loop, "Remotely controlled switches"
NehRemote ==
    /\ out.op = "neh_run"
    /\ out.at = "remote"
    /\ out.g.S_manual \cup out.g.S_remote # {}
    /\ out' = [out EXCEPT !.at = "manual",
                          !.g = NehDrain(problem, out.g, out.g.S_remote, TRUE)]
    /\ UNCHANGED <<problem, pc, params, ils, ls, generator, history, result, runs, sched>>

\* the same turn, "Manually controlled switches"; when no trial is kept best_j,
\* best_l and best_idx are read uninitialised and the run is given up as undefined
NehManual ==
    /\ out.op = "neh_run"
    /\ out.at = "manual"
    /\ out' = IF out.g.S_manual = {} THEN [out EXCEPT !.at = "remote"]
              ELSE IF NehScan(problem, out.g, NehTrials(problem, out.g), 1,
                              [objective |-> Inf, triple |-> <<>>]).triple = <<>>
              THEN [op |-> "neh", status |-> "undefined", makespan |-> Inf]
              ELSE [out EXCEPT !.at = "remote", !.g = NehStep(problem, out.g)]
    /\ UNCHANGED <<problem, pc, params, ils, ls, generator, history, result, runs, sched>>

\* "Return the solution"
NehReturn ==
    /\ out.op = "neh_run"
    /\ out.at = "remote"
    /\ out.g.S_manual \cup out.g.S_remote = {}
    /\ out' = [op |-> "neh", status |-> "done",
               makespan |-> makespan(problem, out.g.schedule)]
    /\ sched' = out.g.schedule
    /\ UNCHANGED <<problem, pc, params, ils, ls, generator, history, result, runs>>

NextNeh == NehBegin \/ NehRemote \/ NehManual \/ NehReturn

SpecNeh == InitProblem /\ [][NextNeh]_vars

\* ------------------------------------------------------------ perturbation harness
\* a caller of ILS::perturb: any instance with p[i] = i and travel times that differ by
\* pair and any layout of its operations that respects their routing
InitPerturb ==
    /\ sched \in Layouts(Ops)
    /\ problem \in
          {q \in {LoadProblem(tech, [i \in Ops |-> i],
                              [i \in 0 .. NumOps |-> [j \in 0 .. NumOps |->
                                  [l \in Teams |-> (2 * i + 5 * j) % 6]]],
                              PredecessorsOf(E)) :
                      tech \in [Ops -> {"MANUAL", "REMOTE"}], E \in EdgeSets} :
             Routed(q, sched)}
    /\ pc = "harness"
    /\ out = [op |-> "none"]
    /\ params = NoParams
    /\ ils = NoIls
    /\ ls = NoLs
    /\ generator = AnySeed
    /\ history = NoHistory
    /\ result = <<>>
    /\ runs = <<>>

\* ILS::perturb on the entry <<sched, evaluate(sched)>> up to its loop: the copy of
\* the entry and the shuffled chain; out.idx is the loop variable
PerturbBegin ==
    /\ pc = "harness"
    /\ out.op = "none"
    /\ \E d \in Draw(generator, Len(Chains(problem.m))) :
          LET entry == <<sched, evaluate(problem, sched)>> IN
          out' = [op |-> "perturb_run", entry |-> entry, perturbed |-> entry,
                  chain |-> Chains(problem.m)[d[1] + 1], idx |-> 0, turn |-> <<>>]
    /\ UNCHANGED <<problem, pc, params, ils, ls, generator, history, result, runs, sched>>

\* one turn of the loop over the chain; out.turn keeps l_origin, l_target, idx_origin,
\* indexes and operation
PerturbTurn ==
    /\ out.op = "perturb_run"
    /\ out.idx < Len(out.chain)
    /\ LET l_origin == out.chain[out.idx + 1]
           l_target == out.chain[((out.idx + 1) % Len(out.chain)) + 1]
           schedule == out.perturbed[1]
           orders == Shuffles(Len(schedule[l_target]) - (IF l_target = l_origin THEN 1 ELSE 0))
       IN IF Len(schedule[l_origin]) = 0
          THEN out' = [out EXCEPT !.idx = @ + 1, !.turn = <<>>]
          ELSE \E d1 \in Draw(generator, Len(schedule[l_origin])) :
               \E d2 \in Draw(d1[2], Len(orders)) :
                  out' = [out EXCEPT
                            !.idx = @ + 1,
                            !.perturbed = EjectionStep(problem, out.perturbed, l_origin, l_target,
                                                       d1[1], orders[d2[1] + 1]),
                            !.turn = <<l_origin, l_target, d1[1], orders[d2[1] + 1],
                                       schedule[l_origin][d1[1] + 1]>>]
    /\ UNCHANGED <<problem, pc, params, ils, ls, generator, history, result, runs, sched>>

\* "return perturbed"
PerturbReturn ==
    /\ out.op = "perturb_run"
    /\ out.idx = Len(out.chain)
    /\ out' = [op |-> "perturb", entry |-> out.entry, result |-> out.perturbed]
    /\ UNCHANGED <<problem, pc, params, ils, ls, generator, history, result, runs, sched>>

NextPerturb == PerturbBegin \/ PerturbTurn \/ PerturbReturn

SpecPerturb == InitPerturb /\ [][NextPerturb]_vars


\* ------------------------------------------------------------ properties
\* C1: in every iteration the local search is called on the schedule that the
\* same iteration perturbed
C1_LocalSearchOnPerturbed == pc = "ls_trial" => ls.entry = ils.perturbed

\* C2: the returned schedule is feasible and its evaluation is not greater
\* than that of the initial local optimum nor of any trial of the run
C2_ReturnedBestSeen ==
    pc = "done" =>
        /\ is_feasible(problem, result[1]).ok
        /\ \A e \in history.all : TupleCompare(evaluate(problem, result[1]), e) # 1

\* C3: the incumbent is replaced only by a trial strictly less than it, a
\* trial equal within epsilon or greater leaves it as it is, and no step of
\* the loop makes its evaluation greater
C3_IncumbentMonotone ==
    [][(pc = "loop" \/ pc = "perturbation" \/ pc = "ls_trial") =>
          (IF pc = "ls_trial" /\ pc' = "loop"
           THEN /\ ils'.incumbent = IF TupleCompare(ls.incumbent[2], ils.incumbent[2]) = -1
                                    THEN ls.incumbent ELSE ils.incumbent
                /\ TupleCompare(ils'.incumbent[2], ils.incumbent[2]) # 1
           ELSE ils'.incumbent = ils.incumbent)]_vars

C3_Witness ==
    /\ pc = "loop"
    /\ ils.iteration_last_improvement > 0
    /\ history.since # {}

C6_LocalOptimum ==
    out.op = "local_search" =>
        \A k \in 1 .. Len(NeighborhoodList) :
            TupleCompare(Best(NeighborhoodList[k], problem, out.result)[2], out.result[2]) # -1

C6_Witness ==
    /\ out.op = "local_search"
    /\ params.local_search_method = "rvnd"
    /\ TupleCompare(out.result[2], out.entry[2]) = -1
    /\ out.entry[2][1] # Inf

\* C7: best returns the entry when no enumerated neighbour is strictly less
\* than it, and otherwise an enumerated neighbour with its evaluation than
\* which no enumerated neighbour is strictly less
C7_BestIsLeast ==
    out.op = "best" =>
        LET nbs == Built(out.nb, problem, out.entry[1])
            ev == [k \in 1 .. Len(nbs) |-> evaluate(problem, nbs[k].neighbor)]
        IN IF \A k \in 1 .. Len(nbs) : TupleCompare(ev[k], out.entry[2]) # -1
           THEN out.result = out.entry
           ELSE \E k \in 1 .. Len(nbs) :
                   /\ out.result = <<nbs[k].neighbor, ev[k]>>
                   /\ \A h \in 1 .. Len(nbs) : TupleCompare(ev[h], ev[k]) # -1

\* C8: every neighbour built holds the operations of its parent and differs
\* from it only where its move says: Shift one lane, the operation taken to
\* index idx_target; Exchange two positions of one lane; Reassignment two
\* lanes of 1 .. m, one an operation shorter, the other longer by it;
\* DirectSwap one position in each of two lanes of 1 .. m; and the parent
\* itself is left as it was
C8_MoveLocality ==
    out.op = "build" =>
        \A k \in 1 .. Len(out.built) :
            LET mv == out.built[k].move
                nbr == out.built[k].neighbor
                changed == {l \in Lanes : nbr[l] # sched[l]}
                differ(l) == {x \in 1 .. Len(sched[l]) : nbr[l][x] # sched[l][x]}
                without(seq, x) == [y \in 1 .. Len(seq) - 1 |-> IF y < x THEN seq[y] ELSE seq[y + 1]]
            IN /\ DOMAIN nbr = Lanes
               /\ \A i \in Ops : Occurrences(problem, nbr, i) = 1
               /\ \A i \in Ops : Occurrences(problem, sched, i) = 1
               /\ CASE out.nb = "Shift" ->
                         /\ changed \subseteq {mv[1]}
                         /\ Len(nbr[mv[1]]) = Len(sched[mv[1]])
                         /\ nbr[mv[1]][mv[3] + 1] = sched[mv[1]][mv[2] + 1]
                         /\ without(nbr[mv[1]], mv[3] + 1) = without(sched[mv[1]], mv[2] + 1)
                    [] out.nb = "Exchange" ->
                         /\ changed = {mv[1]}
                         /\ Len(nbr[mv[1]]) = Len(sched[mv[1]])
                         /\ differ(mv[1]) = {mv[2] + 1, mv[3] + 1}
                         /\ mv[2] # mv[3]
                         /\ nbr[mv[1]][mv[2] + 1] = sched[mv[1]][mv[3] + 1]
                         /\ nbr[mv[1]][mv[3] + 1] = sched[mv[1]][mv[2] + 1]
                    [] out.nb = "Reassignment" ->
                         /\ changed = {mv[1], mv[3]}
                         /\ mv[1] # mv[3]
                         /\ {mv[1], mv[3]} \subseteq Teams
                         /\ nbr[mv[1]] = without(sched[mv[1]], mv[2] + 1)
                         /\ Len(nbr[mv[3]]) = Len(sched[mv[3]]) + 1
                         /\ nbr[mv[3]][mv[4] + 1] = sched[mv[1]][mv[2] + 1]
                         /\ without(nbr[mv[3]], mv[4] + 1) = sched[mv[3]]
                    [] out.nb = "DirectSwap" ->
                         /\ changed = {mv[1], mv[2]}
                         /\ mv[1] < mv[2]
                         /\ {mv[1], mv[2]} \subseteq Teams
                         /\ Len(nbr[mv[1]]) = Len(sched[mv[1]])
                         /\ Len(nbr[mv[2]]) = Len(sched[mv[2]])
                         /\ differ(mv[1]) = {mv[3] + 1}
                         /\ differ(mv[2]) = {mv[4] + 1}
                         /\ nbr[mv[1]][mv[3] + 1] = sched[mv[2]][mv[4] + 1]
                         /\ nbr[mv[2]][mv[4] + 1] = sched[mv[1]][mv[3] + 1]

C8_Witness ==
    /\ out.op = "build"
    /\ out.nb = "Reassignment"
    /\ Len(out.built) >= 4
    /\ Len(sched[0]) > 0

\* C9: when the simulator stops with fewer than n operations released,
\* evaluate returns (+infinity, +infinity), whichever lane holds the blocked ones
C9_BlockedEvaluatesToInfinities ==
    (out.op = "evaluate" /\ out.count < problem.n) => out.eval = <<Inf, Inf>>

\* C10: two schedules that differ only in the order of lane 0 have the same
\* start times and the same makespan
C10_Lane0OrderIrrelevant ==
    out.op = "permute" =>
        /\ out.t_other = out.t
        /\ out.makespan_other = out.makespan
        /\ out.eval_other[1] = out.eval[1]

\* C10, as the program has it: they have when the simulator releases every
\* operation of both
C10_Lane0OrderIrrelevantWhenReleased ==
    (out.op = "permute" /\ out.makespan # Inf /\ out.makespan_other # Inf) =>
        /\ out.t_other = out.t
        /\ out.makespan_other = out.makespan
        /\ out.eval_other = out.eval

C10_Witness ==
    /\ out.op = "permute"
    /\ out.makespan # Inf
    /\ out.makespan_other # Inf
    /\ \E j \in Ops : problem.predecessors[j] # {} /\ problem.technology[j] = "REMOTE"
    /\ \E l \in Teams : sched[l] # <<>>

\* C11: is_feasible returns true only if the simulator gives every operation
\* 1..n a finite start time; a valid partition whose lane order deadlocks
\* against the precedence constraints is reported infeasible
C11_FeasibleOnlyIfFinite ==
    (out.op = "is_feasible" /\ out.ok) => \A i \in 1 .. problem.n : out.t[i] # Inf

\* C14: is_feasible(schedule) = true implies that the schedule has m + 1 lanes,
\* that every id in 1..n appears exactly once across lanes 0..m, that lane 0
\* holds only Remote switches and that lanes 1..m hold only Manual switches
C14_FeasibleIsRoutedPartition ==
    (out.op = "is_feasible" /\ out.ok) =>
        LET positions == UNION {{<<l, k>> : k \in DOMAIN sched[l]} : l \in DOMAIN sched} IN
        /\ DOMAIN sched = 0 .. problem.m
        /\ \A i \in 1 .. problem.n :
              Cardinality({lk \in positions : sched[lk[1]][lk[2]] = i}) = 1
        /\ \A lk \in positions :
              problem.technology[sched[lk[1]][lk[2]]] =
                  (IF lk[1] = 0 THEN "REMOTE" ELSE "MANUAL")

C14_Witness ==
    /\ out.op = "is_feasible"
    /\ out.ok
    /\ sched[0] # <<>>
    /\ \E l \in Teams : Len(sched[l]) >= 2

\* C15: is_feasible(schedule) = true implies that for every direct precedence
\* i -> j the start times satisfy start_time[j] >= start_time[i] + p[i] - epsilon
C15_FeasibleKeepsPrecedence ==
    (out.op = "is_feasible" /\ out.ok) =>
        \A j \in 1 .. problem.n : \A i \in problem.predecessors[j] :
            \/ out.t[j] = Inf
            \/ /\ out.t[i] # Inf
               /\ out.t[j] >= out.t[i] + problem.p[i] - THRESHOLD

C15_Witness ==
    /\ out.op = "is_feasible"
    /\ out.ok
    /\ \E j \in 1 .. problem.n : \E i \in problem.predecessors[j] :
          /\ out.t[j] # Inf
          /\ out.t[j] = out.t[i] + problem.p[i]
          /\ \E l \in Lanes : Len(sched[l]) >= 1 /\ sched[l][1] = j

\* C16: is_feasible reports the first failing check in the fixed order lane
\* count, id range, exactly-once assignment, lane-0 technology, lanes-1..m
\* technology, precedence; a valid partition with only Remote switches in lane 0
\* and a Remote switch in a lane l >= 1 gives false with "Non-manual controlled
\* switch assigned to a maintenace team.", a feasible schedule gives true with
\* "Feasible solution."
C16_FirstFailingCheck ==
    out.op = "is_feasible" =>
        LET positions == UNION {{<<l, k>> : k \in DOMAIN sched[l]} : l \in DOMAIN sched}
            at(lk) == sched[lk[1]][lk[2]]
            t == start_time(problem, sched)
        IN <<out.ok, out.msg>> =
           IF Cardinality(DOMAIN sched) # problem.m + 1
           THEN <<FALSE, "The number of maintenance teams is wrong.">>
           ELSE IF \E lk \in positions : at(lk) \notin 1 .. problem.n
           THEN <<FALSE, "Using invalid switch ID.">>
           ELSE IF \E i \in 1 .. problem.n : Cardinality({lk \in positions : at(lk) = i}) # 1
           THEN <<FALSE, "There are switches assigned to more than one team or not assigned to any team.">>
           ELSE IF \E lk \in positions : lk[1] = 0 /\ problem.technology[at(lk)] # "REMOTE"
           THEN <<FALSE, "Non-remote controlled switch assigned to dummy team 0.">>
           ELSE IF \E lk \in positions : lk[1] >= 1 /\ problem.technology[at(lk)] # "MANUAL"
           THEN <<FALSE, "Non-manual controlled switch assigned to a maintenace team.">>
           ELSE IF \E j \in 1 .. problem.n : \E i \in problem.predecessors[j] :
                      t[j] # Inf /\ (t[i] = Inf \/ t[j] + THRESHOLD <= t[i])
           THEN <<FALSE, "Precedence rules violated.">>
           ELSE <<TRUE, "Feasible solution.">>

C16_Witness ==
    /\ out.op = "is_feasible"
    /\ ~out.ok
    /\ out.msg = "Non-manual controlled switch assigned to a maintenace team."
    /\ \A i \in Ops : \E l \in Lanes : \E k \in 1 .. Len(sched[l]) : sched[l][k] = i
    /\ \E l \in Teams : \E k \in 1 .. Len(sched[l]) : problem.technology[sched[l][k]] = "REMOTE"
    /\ sched[0] # <<>>

\* C12: Greedy.solve on an instance with an acyclic precedence graph, m >= 1
\* and every switch Manual or Remote terminates with every operation scheduled
\* and returns a schedule for which is_feasible holds and every start time is finite
C12_GreedyFeasible ==
    out.op = "greedy" =>
        /\ out.status = "done"
        /\ \A i \in 1 .. problem.n : \E l \in Lanes : \E k \in 1 .. Len(sched[l]) : sched[l][k] = i
        /\ is_feasible(problem, sched).ok
        /\ \A i \in 1 .. problem.n : start_time(problem, sched)[i] # Inf

C12_Witness ==
    /\ out.op = "greedy"
    /\ \E j \in Ops : Cardinality(problem.predecessors[j]) = 2
    /\ sched[0] # <<>>
    /\ \E l \in Teams : sched[l] # <<>>
    /\ \E j \in Ops : \E i \in problem.predecessors[j] :
          problem.technology[j] = "REMOTE" /\ problem.technology[i] = "MANUAL"

\* C13: the second component returned by Greedy.solve is the makespan of the
\* schedule it returns: it equals Problem::makespan(schedule), the maximum
\* completion time over all operations, remote operations included
C13_GreedyMakespan ==
    out.op = "greedy" => Compare(out.makespan, makespan(problem, sched)) = 0

\* C18: after the Problem is loaded, precedence[i][j] is true exactly when there
\* is a directed path of length >= 1 from i to j in the direct precedence graph,
\* for every pair i, j in 1..n of an acyclic graph, and j is in successors[i]
\* exactly when i is in predecessors[j]
C18_PrecedenceIsClosure ==
    out.op = "load" =>
        LET E == {e \in Ops \X Ops : e[1] \in problem.predecessors[e[2]]} IN
        /\ \A i \in 1 .. problem.n : \A j \in 1 .. problem.n :
              out.precedence[i][j] <=> (\E e \in E : e[1] = i /\ j \in Reach(E, {e[2]}))
        /\ \A i \in 1 .. problem.n : \A j \in 1 .. problem.n :
              (j \in out.successors[i]) <=> (i \in problem.predecessors[j])

C18_Witness ==
    /\ out.op = "load"
    /\ \E i \in Ops : \E j \in Ops :
          /\ out.precedence[i][j]
          /\ i \notin problem.predecessors[j]

\* C17: Reassignment.any samples over the whole Reassignment neighbourhood: with
\* feasible_only = false, every move (l1, idx_o, l2, idx_t) with l1 # l2 in
\* 1..m, idx_o a position of lane l1 and idx_t in 0..|lane l2| (the append
\* position included), which Reassignment.best enumerates, is a possible
\* outcome of any for some random draws
C17_AnyCoversNeighbourhood ==
    (out.op = "any" /\ ~out.feasible_only) =>
        LET nbs == Built("Reassignment", problem, sched) IN
        \A k \in 1 .. Len(nbs) : nbs[k].neighbor \in out.possible

\* C19: starting from an entry with finite makespan, the incumbent of standard,
\* vnd and rvnd has finite makespan after every step, a neighbour whose
\* evaluation carries +infinity is never adopted, and the schedule a local
\* search returns is feasible whenever its entry is
C19_IncumbentStaysFinite ==
    /\ (InLocalSearch /\ ls.entry[2][1] # Inf) =>
          /\ ls.incumbent[2][1] # Inf
          /\ makespan(problem, ls.incumbent[1]) # Inf
    /\ (out.op = "local_search" /\ out.entry[2][1] # Inf) =>
          /\ out.result[2][1] # Inf
          /\ is_feasible(problem, out.result[1]).ok
          /\ \A i \in 1 .. problem.n : start_time(problem, out.result[1])[i] # Inf

C19_Witness ==
    /\ out.op = "local_search"
    /\ out.entry[2][1] # Inf
    /\ out.result # out.entry
    /\ \E nb \in {"Shift", "Reassignment"} :
          LET nbs == Built(nb, problem, out.result[1]) IN
          \E k \in 1 .. Len(nbs) : evaluate(problem, nbs[k].neighbor)[1] = Inf

\* C20: standard, vnd and rvnd terminate for every entry and every problem:
\* the sequence of adopted incumbents cannot repeat a schedule; here, the
\* schedule a local search starts from is never adopted again later in the call
C20_NoScheduleAdoptedAgain ==
    [][(InLocalSearch /\ ls.method # "none" /\ ls'.method = ls.method
            /\ ls'.incumbent # ls.incumbent)
        => ls'.incumbent[1] # ls.entry[1]]_vars

\* C21: vnd visits the neighbourhoods in the fixed list order: it starts at the
\* first one, returns to the first one right after a strict improvement, moves
\* to the next one after a non-improving best, and stops exactly when the last
\* neighbourhood of the list fails to improve; at termination every
\* neighbourhood has been tried on the final incumbent without improvement
C21_VndOrder ==
    [][/\ (ls.method = "none" /\ ls'.method = "vnd") =>
              ls'.k = 1 /\ ls'.incumbent = ls'.entry
       /\ (ls.method = "vnd" /\ ls'.method = "vnd") =>
              /\ ls.k \in 1 .. Len(NeighborhoodList)
              /\ LET trial == Best(NeighborhoodList[ls.k], problem, ls.incumbent) IN
                 IF TupleCompare(trial[2], ls.incumbent[2]) = -1
                 THEN ls'.k = 1 /\ ls'.incumbent = trial
                 ELSE ls'.k = ls.k + 1 /\ ls'.incumbent = ls.incumbent
       /\ (ls.method = "vnd" /\ ls'.method = "none") =>
              /\ ls.k = Len(NeighborhoodList) + 1
              /\ out'.result = ls.incumbent
              /\ \A k \in 1 .. Len(NeighborhoodList) :
                    TupleCompare(Best(NeighborhoodList[k], problem, ls.incumbent)[2],
                                 ls.incumbent[2]) # -1
      ]_vars

C21_Witness ==
    /\ pc = "ls_harness"
    /\ ls.method = "vnd"
    /\ ls.k = Len(NeighborhoodList) + 1
    /\ ls.incumbent # ls.entry
    /\ ls.entry[2][1] # Inf

\* C22: in rvnd the pool of available neighbourhoods starts as the full list,
\* every draw removes the drawn neighbourhood from the pool, the pool is
\* refilled to the full list only after a strict improvement, and the search
\* stops exactly when the pool is empty; at termination every neighbourhood of
\* the list has been applied to the final incumbent without improvement
C22_RvndPool ==
    [][/\ (ls.method = "none" /\ ls'.method = "rvnd") =>
              ls'.available = NeighborhoodList /\ ls'.incumbent = ls'.entry
       /\ (ls.method = "rvnd" /\ ls'.method = "rvnd") =>
              \E idx \in 0 .. Len(ls.available) - 1 :
                 LET trial == Best(ls.available[idx + 1], problem, ls.incumbent) IN
                 IF TupleCompare(trial[2], ls.incumbent[2]) = -1
                 THEN ls'.available = NeighborhoodList /\ ls'.incumbent = trial
                 ELSE /\ ls'.available = EraseAt(ls.available, idx)
                      /\ ls'.incumbent = ls.incumbent
       /\ (ls.method = "rvnd" /\ ls'.method = "none") =>
              /\ ls.available = <<>>
              /\ out'.result = ls.incumbent
              /\ \A k \in 1 .. Len(NeighborhoodList) :
                    TupleCompare(Best(NeighborhoodList[k], problem, ls.incumbent)[2],
                                 ls.incumbent[2]) # -1
      ]_vars

C22_Witness ==
    /\ pc = "ls_harness"
    /\ ls.method = "rvnd"
    /\ ls.available = <<>>
    /\ ls.incumbent # ls.entry
    /\ ls.entry[2][1] # Inf

\* C23: every operation j the simulator releases starts at
\* max(0, max over direct predecessors k of t[k] + p[k]) on lane 0 and at
\* max(t[i] + p[i] + s[i][j][l], max over direct predecessors k of t[k] + p[k])
\* on a lane l >= 1, i being the operation before j in the lane (the depot 0
\* when j is first); operations never released keep t = +infinity, and the
\* result does not depend on the order in which the lanes are scanned in a round
C23_StartTimeRecurrence ==
    out.op = "evaluate" =>
        LET released == Simulate(problem, sched).index
            ready(j) == IF problem.predecessors[j] = {} THEN 0
                        ELSE CHOOSE x \in {out.t[k] + problem.p[k] : k \in problem.predecessors[j]} :
                                \A k \in problem.predecessors[j] : out.t[k] + problem.p[k] <= x
        IN /\ \A l \in Lanes : \A k \in 1 .. Len(sched[l]) :
                 LET j == sched[l][k]
                     i == IF k = 1 THEN 0 ELSE sched[l][k - 1]
                     arrival == IF l = 0 THEN 0
                                ELSE out.t[i] + problem.p[i] + problem.s[i][j][l]
                 IN IF k <= released[l]
                    THEN /\ out.t[j] < Inf
                         /\ out.t[j] = (IF arrival >= ready(j) THEN arrival ELSE ready(j))
                    ELSE out.t[j] = Inf
           /\ \A f \in Permutations(Lanes) :
                 RoundsOrder(problem, sched, SimulatorStart(problem, sched),
                             AsSeq(f, problem.m)).t = out.t

C23_Witness ==
    /\ out.op = "evaluate"
    /\ out.count \in 1 .. problem.n - 1
    /\ \E l \in Teams : Len(sched[l]) >= 1 /\ out.t[sched[l][1]] # Inf
    /\ \E j \in Ops : problem.predecessors[j] # {} /\ out.t[j] = Inf

\* C24: at each manual step Greedy appends to lane l* the ready operation j*
\* of the pair (j*, l*) that minimises t[phi[l]] + p[phi[l]] + s[phi[l]][j][l]
\* over all ready manual j and all teams l, the wait for predecessors not
\* entering the criterion; among pairs with equal criterion the smallest j and
\* then the smallest l wins; on the instance n = 2, m = 2, both Manual,
\* p = (3, 4), edge 1 -> 2, all travel times 1, this gives lane 1 = <1>,
\* lane 2 = <2> and makespan 8
C24_GreedyChoice ==
    [][/\ (out.op = "greedy_run" /\ out.at = "manual" /\ out.g.S_manual # {}) =>
            LET g == out.g
                last(l) == IF g.schedule[l] = <<>> THEN 0
                           ELSE g.schedule[l][Len(g.schedule[l])]
                crit(j, l) == g.t[last(l)] + problem.p[last(l)] + problem.s[last(l)][j][l]
                ready == {j \in g.S_manual : g.gamma[j] = 0}
            IN /\ out'.op = "greedy_run"
               /\ \E j \in ready : \E l \in 1 .. problem.m :
                     /\ out'.g.schedule = [g.schedule EXCEPT ![l] = Append(@, j)]
                     /\ out'.g.S_manual = g.S_manual \ {j}
                     /\ \A j2 \in ready : \A l2 \in 1 .. problem.m :
                           \/ crit(j, l) < crit(j2, l2)
                           \/ crit(j, l) = crit(j2, l2) /\ (j < j2 \/ (j = j2 /\ l <= l2))
       /\ (out'.op = "greedy" /\ problem = TwoSwitchInstance) =>
            /\ sched' = (0 :> <<>> @@ 1 :> <<1>> @@ 2 :> <<2>>)
            /\ out'.makespan = 8
      ]_vars

C24_Witness ==
    /\ out.op = "greedy"
    /\ problem = TwoSwitchInstance
    /\ sched[2] = <<2>>

\* C30: in Greedy.solve, whenever the manual selection step runs with
\* unscheduled manual operations left (precedence graph acyclic, m >= 1, every
\* switch Manual or Remote), at least one unscheduled manual operation has
\* gamma = 0 after the remote drain, so the chosen pair (j, l) is assigned
\* before it is used; and gamma[j] always equals the number of direct
\* predecessors of j not yet scheduled
C30_GreedyReady ==
    /\ out.op = "greedy_run" =>
          LET g == out.g IN
          /\ (out.at = "manual" /\ g.S_manual # {}) => \E j \in g.S_manual : g.gamma[j] = 0
          /\ \A j \in 1 .. problem.n :
                g.gamma[j] = Cardinality(problem.predecessors[j] \cap (g.S_manual \cup g.S_remote))
    /\ out.op = "greedy" => out.status = "done"

C30_Witness ==
    /\ out.op = "greedy_run"
    /\ out.at = "manual"
    /\ Cardinality(out.g.S_manual) >= 2
    /\ \E j \in out.g.S_manual : out.g.gamma[j] > 0
    /\ out.g.schedule[0] # <<>>

\* C25: at each manual step NEH inserts the triple (j, l, idx), over all ready
\* manual operations j, teams l in 1..m and insertion indexes idx in
\* 0..|lane l|, whose resulting partial schedule has the smallest simulated
\* makespan, the first triple found winning when makespans are equal within
\* epsilon; a triple giving an infinite makespan is never chosen, at least one
\* finite triple always exists, and the final schedule is feasible with the
\* returned value equal to Problem::makespan of it
C25_NehChoice ==
    [][/\ (out.op = "neh_run" /\ out.at = "manual" /\ out.g.S_manual # {}) =>
            LET g == out.g
                triples == {tr \in g.S_manual \X (1 .. problem.m) \X (0 .. problem.n) :
                               g.gamma[tr[1]] = 0 /\ tr[3] <= Len(g.schedule[tr[2]])}
                after(tr) == [g.schedule EXCEPT ![tr[2]] = InsertAt(@, tr[3], tr[1])]
                span(tr) == LET t == start_time(problem, after(tr)) IN
                            FoldMax([i \in 0 .. problem.n |-> Add(t[i], problem.p[i])],
                                    (1 .. problem.n) \ ((g.S_manual \ {tr[1]}) \cup g.S_remote))
            IN /\ out'.op = "neh_run"
               /\ \E tr \in triples :
                     /\ out'.g.schedule = after(tr)
                     /\ span(tr) # Inf
                     /\ \A o \in triples : Compare(span(o), span(tr)) # -1
                     /\ \A o \in triples : LexLess(o, tr) => Compare(span(o), span(tr)) = 1
       /\ out'.op = "neh" =>
            /\ out'.status = "done"
            /\ is_feasible(problem, sched').ok
            /\ out'.makespan # Inf
            /\ out'.makespan = makespan(problem, sched')
      ]_vars

\* C26: ILS.perturb, given an entry whose schedule is feasible and whose
\* evaluation equals evaluate(schedule), returns a pair with finite makespan
\* and the evaluation of its schedule: each ejected operation is committed at
\* the first tried target position that gives a finite makespan, and if no
\* position does it is put back in its origin lane at its original index, the
\* schedule then being what it was before the ejection; the entry and lane 0
\* are unchanged and the result holds the same operations as the entry
C26_PerturbKeepsFeasible ==
    [][(/\ out.op = "perturb_run"
        /\ out.entry[2] = evaluate(problem, out.entry[1])) =>
         /\ (out'.op = "perturb_run" /\ out'.turn # <<>>) =>
               LET before == out.perturbed[1]
                   l_origin == out'.turn[1]
                   l_target == out'.turn[2]
                   idx_origin == out'.turn[3]
                   indexes == out'.turn[4]
                   operation == before[l_origin][idx_origin + 1]
                   erased == [before EXCEPT ![l_origin] = EraseAt(@, idx_origin)]
                   tried(k) == [erased EXCEPT ![l_target] = InsertAt(@, indexes[k], operation)]
                   finite == {k \in 1 .. Len(indexes) : evaluate(problem, tried(k))[1] # Inf}
               IN /\ out'.perturbed[1] =
                        IF finite = {} THEN before
                        ELSE tried(CHOOSE k \in finite : \A h \in finite : k <= h)
                  /\ out'.perturbed[2] = evaluate(problem, out'.perturbed[1])
                  /\ out.entry[2][1] # Inf => out'.perturbed[2][1] # Inf
                  /\ out'.entry = out.entry
         /\ out'.op = "perturb" =>
               /\ out.entry[2][1] # Inf => out'.result[2][1] # Inf
               /\ out'.result[2] = evaluate(problem, out'.result[1])
               /\ out'.result[1][0] = out'.entry[1][0]
               /\ \A i \in 0 .. problem.n :
                     Cardinality({lk \in (0 .. problem.m) \X (1 .. problem.n) :
                                     /\ lk[2] <= Len(out'.result[1][lk[1]])
                                     /\ out'.result[1][lk[1]][lk[2]] = i})
                     = Cardinality({lk \in (0 .. problem.m) \X (1 .. problem.n) :
                                     /\ lk[2] <= Len(out'.entry[1][lk[1]])
                                     /\ out'.entry[1][lk[1]][lk[2]] = i})
               /\ out'.entry = out.entry
               /\ out'.entry = <<sched', evaluate(problem, sched')>>
      ]_vars

\* a perturbation of a feasible entry has committed an ejected operation at the
\* second or a later position tried, the first one giving an infinite makespan
C26_Witness ==
    /\ out.op = "perturb_run"
    /\ out.entry[2][1] # Inf
    /\ out.turn # <<>>
    /\ LET l_target == out.turn[2]
           indexes == out.turn[4]
           operation == out.turn[5]
           after == out.perturbed[1]
       IN /\ Len(after[l_target]) = Len(indexes)
          /\ \E k \in 2 .. Len(indexes) :
                /\ after[l_target][indexes[k] + 1] = operation
                /\ evaluate(problem,
                            [after EXCEPT ![l_target] =
                                InsertAt(EraseAt(@, indexes[k]), indexes[1], operation)])[1] = Inf

\* C27: for every schedule that holds each operation 1..n exactly once,
\* start_time releases all n operations (every start time is finite) if and
\* only if the directed graph of the direct precedence edges together with the
\* edges from each operation to the next one of its lane (lane 0 included) is
\* acyclic
C27_ReleasedIffAcyclic ==
    out.op = "evaluate" =>
        LET direct == {e \in Ops \X Ops : e[1] \in problem.predecessors[e[2]]}
            lane == {e \in Ops \X Ops :
                        \E l \in 0 .. problem.m : \E k \in 1 .. Len(sched[l]) - 1 :
                            sched[l][k] = e[1] /\ sched[l][k + 1] = e[2]}
        IN (out.count = problem.n /\ \A i \in 1 .. problem.n : out.t[i] # Inf)
           <=> Acyclic(direct \cup lane)

\* start_time has stopped short on a schedule no lane of which holds an operation
\* before one of its predecessors: the cycle goes through two lanes
C27_Witness ==
    /\ out.op = "evaluate"
    /\ out.count < problem.n
    /\ \E i \in 1 .. problem.n : out.t[i] = Inf
    /\ \A l \in 0 .. problem.m : \A k \in 1 .. Len(sched[l]) : \A h \in 1 .. k - 1 :
           sched[l][k] \notin problem.predecessors[sched[l][h]]

\* C29: for every schedule that holds each operation 1..n exactly once, with
\* nonnegative processing and travel times, the makespan component of evaluate
\* (the maximum over the last operation of each manual lane and over all the
\* operations of lane 0) equals Problem::makespan (the maximum of t[i] + p[i]
\* over all i in 1..n), both being +infinity exactly when some operation is
\* not released
C29_EvaluateIsMakespan ==
    out.op = "evaluate" =>
        /\ out.eval[1] = out.makespan
        /\ out.makespan = Inf <=> out.count < problem.n
        /\ out.count < problem.n <=> \E i \in 1 .. problem.n : out.t[i] = Inf

\* both functions were computed on a schedule, all released, whose makespan is that
\* of an operation of lane 0 which is not the last of lane 0 and ends after the last
\* operation of every lane
C29_Witness ==
    /\ out.op = "evaluate"
    /\ out.count = problem.n
    /\ out.makespan # Inf
    /\ \E k \in 1 .. Len(sched[0]) - 1 :
          /\ out.t[sched[0][k]] + problem.p[sched[0][k]] = out.makespan
          /\ \A l \in 0 .. problem.m :
                Len(sched[l]) > 0 =>
                    out.t[sched[l][Len(sched[l])]] + problem.p[sched[l][Len(sched[l])]]
                        < out.makespan

====
